---- MODULE Spec2Model ----
(***************************************************************************)
(* Multilingual PDF question answering: the FastAPI backend                *)
(* (backend/main.py), the Streamlit shell (app.py), ingestion              *)
(* (src/ingest.py), the vector store wrapper (src/vector_store.py) and the *)
(* answer post-processing (src/qa.py).                                     *)
(*                                                                         *)
(* A Python str is modelled as the sequence of its Unicode code points,    *)
(* so lengths, indices, case folding and the Devanagari range are the      *)
(* code's own.                                                             *)
(***************************************************************************)
EXTENDS Integers, Sequences, FiniteSets, TLC

(***************************************************************************)
(* str primitives                                                          *)
(***************************************************************************)

\* the characters str.strip(), str.split() and the regex class \s remove
WhiteSpace == {9, 10, 11, 12, 13, 32}

\* sentence terminators . ! ? and the Devanagari danda
Terminators == {46, 33, 63, 2404}

\* the regex class \d
Digits == 48..57

Min(S) == CHOOSE x \in S : \A y \in S : x <= y

Max(S) == CHOOSE x \in S : \A y \in S : x >= y

\* str.lower() of one character
lower(c) == IF c \in 65..90 THEN c + 32 ELSE c

\* str.lower()
LowerStr(s) == [i \in 1..Len(s) |-> lower(s[i])]

\* s[i:] of Python for the 1-based position i
From(s, i) == SubSeq(s, i, Len(s))

\* str.strip()
strip(s) ==
    LET keep == {i \in 1..Len(s) : s[i] \notin WhiteSpace}
    IN  IF keep = {} THEN <<>> ELSE SubSeq(s, Min(keep), Max(keep))

\* the first position >= i whose character is not in the class cls (Len(s)+1 if none)
SkipClass(s, i, cls) ==
    LET stop == {j \in i..Len(s) : s[j] \notin cls}
    IN  IF stop = {} THEN Len(s) + 1 ELSE Min(stop)

\* the literal lit occurs in s at position i, compared with re.IGNORECASE
MatchAt(s, i, lit) ==
    /\ i >= 1
    /\ i + Len(lit) - 1 <= Len(s)
    /\ \A k \in 1..Len(lit) : lower(s[i + k - 1]) = lower(lit[k])

\* the literal lit occurs in s at position i, compared exactly
MatchAtExact(s, i, lit) ==
    /\ i >= 1
    /\ i + Len(lit) - 1 <= Len(s)
    /\ \A k \in 1..Len(lit) : s[i + k - 1] = lit[k]

\* str.find(lit, start) on lower-cased operands; 0 stands for Python's -1
FindFrom(s, lit, start) ==
    LET hits == {i \in start..(Len(s) - Len(lit) + 1) : MatchAt(s, i, lit)}
    IN  IF hits = {} THEN 0 ELSE Min(hits)

\* str.find(lit, start), exact; 0 stands for Python's -1
FindExactFrom(s, lit, start) ==
    LET hits == {i \in start..(Len(s) - Len(lit) + 1) : MatchAtExact(s, i, lit)}
    IN  IF hits = {} THEN 0 ELSE Min(hits)

\* lit.lower() in s.lower()
Contains(s, lit) == FindFrom(s, lit, 1) # 0

\* lit in s
ContainsExact(s, lit) == FindExactFrom(s, lit, 1) # 0

\* the regex anchor ^ under re.MULTILINE
AtLineStart(s, i) == i = 1 \/ s[i - 1] = 10

\* str.split(): the maximal runs of non-whitespace characters, in order
RECURSIVE SplitFrom(_, _)
SplitFrom(s, i) ==
    LET b == SkipClass(s, i, WhiteSpace)
    IN  IF b > Len(s) THEN <<>>
        ELSE LET ends == {j \in b..Len(s) : s[j] \in WhiteSpace}
                 e    == IF ends = {} THEN Len(s) + 1 ELSE Min(ends)
             IN  <<SubSeq(s, b, e - 1)>> \o SplitFrom(s, e)

split(s) == SplitFrom(s, 1)

\* sep.join(parts)
RECURSIVE join(_, _)
join(sep, parts) ==
    IF parts = <<>> THEN <<>>
    ELSE IF Len(parts) = 1 THEN parts[1]
    ELSE parts[1] \o sep \o join(sep, Tail(parts))

\* str.split(sep) for a non-empty separator: the pieces between the
\* non-overlapping occurrences of sep, left to right
RECURSIVE SplitOnFrom(_, _, _)
SplitOnFrom(s, sep, i) ==
    LET p == FindExactFrom(s, sep, i)
    IN  IF p = 0 THEN <<From(s, i)>>
        ELSE <<SubSeq(s, i, p - 1)>> \o SplitOnFrom(s, sep, p + Len(sep))

SplitOn(s, sep) == SplitOnFrom(s, sep, 1)

(***************************************************************************)
(* clean_answer (src/qa.py)                                                *)
(***************************************************************************)

\* meta_patterns: "^<lit><tail>" with re.IGNORECASE | re.MULTILINE, where tail
\* is "colon" for \s*[:\-]?\s*, "comma" for [,\s]* and "ws" for \s*
meta_patterns == <<
    \* The answer is
    [lit |-> <<84, 104, 101, 32, 97, 110, 115, 119, 101, 114, 32, 105, 115>>, tail |-> "colon"],
    \* According to the context
    [lit |-> <<65, 99, 99, 111, 114, 100, 105, 110, 103, 32, 116, 111, 32, 116, 104, 101, 32, 99, 111, 110, 116, 101, 120, 116>>, tail |-> "comma"],
    \* Based on the provided context
    [lit |-> <<66, 97, 115, 101, 100, 32, 111, 110, 32, 116, 104, 101, 32, 112, 114, 111, 118, 105, 100, 101, 100, 32, 99, 111, 110, 116, 101, 120, 116>>, tail |-> "comma"],
    \* The information provided indicates that
    [lit |-> <<84, 104, 101, 32, 105, 110, 102, 111, 114, 109, 97, 116, 105, 111, 110, 32, 112, 114, 111, 118, 105, 100, 101, 100, 32, 105, 110, 100, 105, 99, 97, 116, 101, 115, 32, 116, 104, 97, 116>>, tail |-> "ws"],
    \* Note:
    [lit |-> <<78, 111, 116, 101, 58>>, tail |-> "ws"],
    \* Note that
    [lit |-> <<78, 111, 116, 101, 32, 116, 104, 97, 116>>, tail |-> "ws"],
    \* (Devanagari literal)
    [lit |-> <<2313, 2340, 2381, 2340, 2352, 32, 2351, 2361, 32, 2361, 2376>>, tail |-> "colon"],
    \* (Devanagari literal)
    [lit |-> <<2360, 2306, 2342, 2352, 2381, 2349, 32, 2325, 2375, 32, 2309, 2344, 2369, 2360, 2366, 2352>>, tail |-> "comma"],
    \* (Devanagari literal)
    [lit |-> <<2346, 2381, 2352, 2342, 2366, 2344, 32, 2325, 2367, 2319, 32, 2327, 2319, 32, 2360, 2306, 2342, 2352, 2381, 2349, 32, 2325, 2375, 32, 2310, 2343, 2366, 2352, 32, 2346, 2352>>, tail |-> "comma"],
    \* (Devanagari literal)
    [lit |-> <<2360, 2370, 2330, 2344, 2366, 32, 2360, 2375, 32, 2346, 2340, 2366, 32, 2330, 2354, 2340, 2366, 32, 2361, 2376, 32, 2325, 2367>>, tail |-> "ws"],
    \* (Devanagari literal)
    [lit |-> <<2343, 2381, 2351, 2366, 2344, 32, 2342, 2375, 2306, 58>>, tail |-> "ws"],
    \* This work proposes
    [lit |-> <<84, 104, 105, 115, 32, 119, 111, 114, 107, 32, 112, 114, 111, 112, 111, 115, 101, 115>>, tail |-> "ws"],
    \* The question asks
    [lit |-> <<84, 104, 101, 32, 113, 117, 101, 115, 116, 105, 111, 110, 32, 97, 115, 107, 115>>, tail |-> "ws"],
    \* The answer provided is
    [lit |-> <<84, 104, 101, 32, 97, 110, 115, 119, 101, 114, 32, 112, 114, 111, 118, 105, 100, 101, 100, 32, 105, 115>>, tail |-> "ws"]
    >>

\* explanation_patterns: "^<lit>.*?\.\s*" with IGNORECASE | DOTALL | MULTILINE
explanation_patterns == <<
    \* The answer is found in
    <<84, 104, 101, 32, 97, 110, 115, 119, 101, 114, 32, 105, 115, 32, 102, 111, 117, 110, 100, 32, 105, 110>>,
    \* The question asks about
    <<84, 104, 101, 32, 113, 117, 101, 115, 116, 105, 111, 110, 32, 97, 115, 107, 115, 32, 97, 98, 111, 117, 116>>,
    \* Note:
    <<78, 111, 116, 101, 58>>,
    \* Note that
    <<78, 111, 116, 101, 32, 116, 104, 97, 116>>
    >>

\* trailing_explanations: "\s*<lit>.*$" with IGNORECASE | DOTALL; digit says
\* that the literal is followed by \d+
trailing_explanations == <<
    \* The answer is found in Section 
    [lit |-> <<84, 104, 101, 32, 97, 110, 115, 119, 101, 114, 32, 105, 115, 32, 102, 111, 117, 110, 100, 32, 105, 110, 32, 83, 101, 99, 116, 105, 111, 110, 32>>, digit |-> TRUE],
    \* Note:
    [lit |-> <<78, 111, 116, 101, 58>>, digit |-> FALSE],
    \* Note that
    [lit |-> <<78, 111, 116, 101, 32, 116, 104, 97, 116>>, digit |-> FALSE]
    >>

question_format_phrases == <<
    \* (Devanagari literal)
    <<2344, 2368, 2330, 2375, 32, 2342, 2367, 2319, 32, 2327, 2319, 32, 2357, 2367, 2325, 2354, 2381, 2346, 2379, 2306, 32, 2350, 2375, 2306, 32, 2360, 2375, 32, 2319, 2325, 32, 2330, 2369, 2344, 2375, 2306>>,
    \* choose from the options given below
    <<99, 104, 111, 111, 115, 101, 32, 102, 114, 111, 109, 32, 116, 104, 101, 32, 111, 112, 116, 105, 111, 110, 115, 32, 103, 105, 118, 101, 110, 32, 98, 101, 108, 111, 119>>,
    \* select the correct answer
    <<115, 101, 108, 101, 99, 116, 32, 116, 104, 101, 32, 99, 111, 114, 114, 101, 99, 116, 32, 97, 110, 115, 119, 101, 114>>,
    \* choose one of the options
    <<99, 104, 111, 111, 115, 101, 32, 111, 110, 101, 32, 111, 102, 32, 116, 104, 101, 32, 111, 112, 116, 105, 111, 110, 115>>,
    \* (Devanagari literal)
    <<2344, 2368, 2330, 2375, 32, 2342, 2367, 2319, 32, 2327, 2319, 32, 2357, 2367, 2325, 2354, 2381, 2346, 2379, 2306, 32, 2350, 2375, 2306, 32, 2360, 2375>>,
    \* from the options below
    <<102, 114, 111, 109, 32, 116, 104, 101, 32, 111, 112, 116, 105, 111, 110, 115, 32, 98, 101, 108, 111, 119>>,
    \* select from options
    <<115, 101, 108, 101, 99, 116, 32, 102, 114, 111, 109, 32, 111, 112, 116, 105, 111, 110, 115>>,
    \* option
    <<111, 112, 116, 105, 111, 110>>,
    \* (Devanagari literal)
    <<2357, 2367, 2325, 2354, 2381, 2346>>
    >>

\* the option markers a) b) c) d) "option a" "option b"
option_markers == {
    <<97, 41>>,
    <<98, 41>>,
    <<99, 41>>,
    <<100, 41>>,
    <<111, 112, 116, 105, 111, 110, 32, 97>>,
    <<111, 112, 116, 105, 111, 110, 32, 98>>
    }

\* question_answer_patterns: "<open>.*?<close>\s*" with IGNORECASE | DOTALL
question_answer_patterns == <<
    \* (Devanagari literal) ... (Devanagari literal)
    [open |-> <<2346, 2381, 2352, 2358, 2381, 2344, 58>>, close |-> <<2313, 2340, 2381, 2340, 2352, 58>>],
    \* Question: ... Answer:
    [open |-> <<81, 117, 101, 115, 116, 105, 111, 110, 58>>, close |-> <<65, 110, 115, 119, 101, 114, 58>>],
    \* Q: ... A:
    [open |-> <<81, 58>>, close |-> <<65, 58>>],
    \* Q. ... A.
    [open |-> <<81, 46>>, close |-> <<65, 46>>]
    >>

\* the line prefixes of "^(prashn|Question|Q):"
question_line_prefixes == {
    <<2346, 2381, 2352, 2358, 2381, 2344, 58>>,
    <<81, 117, 101, 115, 116, 105, 111, 110, 58>>,
    <<81, 58>>
    }

\* translation_patterns of the form "<lit>.*$" with IGNORECASE | MULTILINE | DOTALL
translation_patterns == <<
    \* Translation:
    <<84, 114, 97, 110, 115, 108, 97, 116, 105, 111, 110, 58>>,
    \* Translated:
    <<84, 114, 97, 110, 115, 108, 97, 116, 101, 100, 58>>,
    \* The answer is in Hindi
    <<84, 104, 101, 32, 97, 110, 115, 119, 101, 114, 32, 105, 115, 32, 105, 110, 32, 72, 105, 110, 100, 105>>,
    \* The answer is in English
    <<84, 104, 101, 32, 97, 110, 115, 119, 101, 114, 32, 105, 115, 32, 105, 110, 32, 69, 110, 103, 108, 105, 115, 104>>
    >>

\* the last translation pattern, "<open>.*?<close>.*$"
translation_open == <<2351, 2361, 32, 2313, 2340, 2381, 2340, 2352, 32>>

translation_close == <<32, 2350, 2375, 2306, 32, 2361, 2376>>

\* where the tail of a meta pattern stops when it starts at position j
TailEnd(s, j, tail) ==
    IF tail = "colon"
    THEN LET a == SkipClass(s, j, WhiteSpace)
             b == IF a <= Len(s) /\ s[a] \in {58, 45} THEN a + 1 ELSE a
         IN  SkipClass(s, b, WhiteSpace)
    ELSE IF tail = "comma"
    THEN SkipClass(s, j, WhiteSpace \cup {44})
    ELSE SkipClass(s, j, WhiteSpace)

\* re.sub("^<lit><tail>", "", s) from position i on
RECURSIVE SubLineStart(_, _, _, _)
SubLineStart(s, i, lit, tail) ==
    LET hits == {p \in i..Len(s) : AtLineStart(s, p) /\ MatchAt(s, p, lit)}
    IN  IF hits = {} THEN From(s, i)
        ELSE LET p == Min(hits)
             IN  SubSeq(s, i, p - 1)
                   \o SubLineStart(s, TailEnd(s, p + Len(lit), tail), lit, tail)

\* qa.py 111-112: every meta pattern in turn
RECURSIVE RemoveMeta(_, _)
RemoveMeta(s, k) ==
    IF s = <<>> \/ k > Len(meta_patterns) THEN s
    ELSE RemoveMeta(SubLineStart(s, 1, meta_patterns[k].lit, meta_patterns[k].tail), k + 1)

\* re.sub("^<lit>.*?\.\s*", "", s) from position i on
RECURSIVE SubLineStartToDot(_, _, _)
SubLineStartToDot(s, i, lit) ==
    LET hits == {p \in i..Len(s) :
                    /\ AtLineStart(s, p)
                    /\ MatchAt(s, p, lit)
                    /\ FindExactFrom(s, <<46>>, p + Len(lit)) # 0}
    IN  IF hits = {} THEN From(s, i)
        ELSE LET p == Min(hits)
                 d == FindExactFrom(s, <<46>>, p + Len(lit))
             IN  SubSeq(s, i, p - 1)
                   \o SubLineStartToDot(s, SkipClass(s, d + 1, WhiteSpace), lit)

\* qa.py 121-122: every explanation pattern in turn
RECURSIVE RemoveExplanations(_, _)
RemoveExplanations(s, k) ==
    IF s = <<>> \/ k > Len(explanation_patterns) THEN s
    ELSE RemoveExplanations(SubLineStartToDot(s, 1, explanation_patterns[k]), k + 1)

\* re.sub("\s*<lit>.*$", "", s): the text is cut where the whitespace before
\* the first match starts
CutTrailing(s, lit, digit) ==
    LET hits == {p \in 1..Len(s) :
                    /\ MatchAt(s, p, lit)
                    /\ digit => (p + Len(lit) <= Len(s) /\ s[p + Len(lit)] \in Digits)}
    IN  IF hits = {} THEN s
        ELSE LET p    == Min(hits)
                 solid == {j \in 1..(p - 1) : s[j] \notin WhiteSpace}
                 b    == IF solid = {} THEN 1 ELSE Max(solid) + 1
             IN  SubSeq(s, 1, b - 1)

\* qa.py 130-131: every trailing explanation in turn
RECURSIVE RemoveTrailing(_, _)
RemoveTrailing(s, k) ==
    IF s = <<>> \/ k > Len(trailing_explanations) THEN s
    ELSE RemoveTrailing(
             CutTrailing(s, trailing_explanations[k].lit, trailing_explanations[k].digit),
             k + 1)

\* qa.py 146-154: the first phrase that is followed by an option marker within
\* 100 characters cuts the answer
RECURSIVE RemoveQuestionFormat(_, _)
RemoveQuestionFormat(s, k) ==
    IF s = <<>> \/ k > Len(question_format_phrases) THEN s
    ELSE LET idx == FindFrom(s, question_format_phrases[k], 1)
             remaining == SubSeq(s, idx, Min({Len(s), idx + 99}))
         IN  IF idx # 0 /\ \E marker \in option_markers : Contains(remaining, marker)
             THEN strip(SubSeq(s, 1, idx - 1))
             ELSE RemoveQuestionFormat(s, k + 1)

\* re.sub("<open>.*?<close>\s*", "", s) from position i on
RECURSIVE SubSpan(_, _, _, _)
SubSpan(s, i, open, close) ==
    LET p == FindFrom(s, open, i)
        q == IF p = 0 THEN 0 ELSE FindFrom(s, close, p + Len(open))
    IN  IF q = 0 THEN From(s, i)
        ELSE SubSeq(s, i, p - 1)
               \o SubSpan(s, SkipClass(s, q + Len(close), WhiteSpace), open, close)

\* qa.py 164-165: every question/answer echo pattern in turn
RECURSIVE RemoveQuestionAnswer(_, _)
RemoveQuestionAnswer(s, k) ==
    IF s = <<>> \/ k > Len(question_answer_patterns) THEN s
    ELSE RemoveQuestionAnswer(
             SubSpan(s, 1, question_answer_patterns[k].open, question_answer_patterns[k].close),
             k + 1)

\* qa.py 171-180: the line is an option marker, a bare option letter or a
\* repeated question
IsOptionLine(line) ==
    LET line_stripped == strip(line)
    IN  \/ /\ Len(line_stripped) >= 2
           /\ lower(line_stripped[1]) \in 97..101
           /\ line_stripped[2] = 41
        \/ /\ Len(line_stripped) = 1
           /\ lower(line_stripped[1]) \in 97..101
        \/ \E prefix \in question_line_prefixes : MatchAt(line_stripped, 1, prefix)

KeepLine(line) == ~IsOptionLine(line)

\* qa.py 168-182
RemoveOptionLines(s) ==
    IF s = <<>> THEN s
    ELSE strip(join(<<10>>, SelectSeq(SplitOn(s, <<10>>), KeepLine)))

\* re.sub("<lit>.*$", "", s)
CutFrom(s, lit) ==
    LET p == FindFrom(s, lit, 1)
    IN  IF p = 0 THEN s ELSE SubSeq(s, 1, p - 1)

RECURSIVE RemoveTranslationLits(_, _)
RemoveTranslationLits(s, k) ==
    IF s = <<>> \/ k > Len(translation_patterns) THEN s
    ELSE RemoveTranslationLits(CutFrom(s, translation_patterns[k]), k + 1)

\* qa.py 192-193: the four literal patterns, then "<open>.*?<close>.*$"
RemoveTranslation(s) ==
    LET t == RemoveTranslationLits(s, 1)
        p == FindFrom(t, translation_open, 1)
        q == IF p = 0 THEN 0 ELSE FindFrom(t, translation_close, p + Len(translation_open))
    IN  IF s = <<>> \/ q = 0 THEN t ELSE SubSeq(t, 1, p - 1)

\* qa.py 198-213: the sentences, each ending at a terminator, and the
\* unterminated rest when it has at least 10 characters
RECURSIVE SentencesFrom(_, _)
SentencesFrom(s, i) ==
    LET ends == {j \in i..Len(s) : s[j] \in Terminators}
    IN  IF ends = {}
        THEN LET rest == strip(From(s, i))
             IN  IF Len(rest) >= 10 THEN <<rest>> ELSE <<>>
        ELSE LET e == Min(ends)
             IN  <<strip(SubSeq(s, i, e))>> \o SentencesFrom(s, e + 1)

\* qa.py 220: lowercase, whitespace collapsed
Normalized(sent) == join(<<32>>, split(LowerStr(sent)))

\* qa.py 216-223
RECURSIVE UniqueFrom(_, _, _)
UniqueFrom(sentences, k, seen_sentences) ==
    IF k > Len(sentences) THEN <<>>
    ELSE LET sent == sentences[k]
             normalized == Normalized(sent)
         IN  IF normalized \notin seen_sentences /\ Len(strip(sent)) > 5
             THEN <<sent>> \o UniqueFrom(sentences, k + 1, seen_sentences \cup {normalized})
             ELSE UniqueFrom(sentences, k + 1, seen_sentences)

\* qa.py 229-236: the fallback when no sentence was kept
Fallback(answer) ==
    IF answer # <<>> /\ answer[Len(answer)] \notin Terminators
    THEN LET spaces == {j \in 1..Len(answer) : answer[j] = 32}
             \* rfind: the 0-based index of the last space, -1 if none
             last_space == IF spaces = {} THEN -1 ELSE Max(spaces) - 1
             \* last_space > len(result) * 0.8
             cut == IF 10 * last_space > 8 * Len(answer)
                    THEN SubSeq(answer, 1, last_space)
                    ELSE answer
         IN  cut \o <<46>>
    ELSE answer

\* the 4-word phrase that starts at word i
Phrase(words, i) == join(<<32>>, SubSeq(words, i, i + 3))

\* qa.py 239-257: drop the text up to the second occurrence of the first
\* 4-word phrase that is counted more than twice and splits the text in more
\* than two parts
RemoveRepetition(result) ==
    LET words == split(result)
        starts == 1..(Len(words) - 3)
        count(ph) == Cardinality({i \in starts : Phrase(words, i) = ph})
        hits == {i \in starts :
                    /\ count(Phrase(words, i)) > 2
                    /\ Len(SplitOn(result, Phrase(words, i))) > 2}
    IN  IF Len(words) > 15 /\ hits # {}
        THEN LET phrase == Phrase(words, Min(hits))
                 parts  == SplitOn(result, phrase)
             IN  join(phrase, <<parts[1]>> \o SubSeq(parts, 3, Len(parts)))
        ELSE result

\* qa.py 260-263
EnsureTerminated(result) ==
    strip(IF result # <<>> /\ result[Len(result)] \notin Terminators
          THEN result \o <<46>>
          ELSE result)

\* qa.py 77-263
clean_answer(raw) ==
    IF raw = <<>> THEN raw
    ELSE LET a1 == RemoveMeta(strip(raw), 1)
             a2 == RemoveExplanations(a1, 1)
             a3 == RemoveTrailing(a2, 1)
             a4 == RemoveQuestionFormat(a3, 1)
             a5 == RemoveQuestionAnswer(a4, 1)
             a6 == RemoveOptionLines(a5)
             answer == RemoveTranslation(a6)
             unique_sentences == UniqueFrom(SentencesFrom(answer, 1), 1, {})
             result == IF unique_sentences # <<>>
                       THEN strip(join(<<32>>, unique_sentences))
                       ELSE Fallback(answer)
         IN  EnsureTerminated(RemoveRepetition(result))

(***************************************************************************)
(* Configuration (src/config.py) and the bounds of the model               *)
(***************************************************************************)

\* settings.chunk_size (the CHUNK_SIZE environment variable), scaled down so
\* that a page of the model is split into more than one chunk
chunk_size == 40

\* settings.chunk_overlap (CHUNK_OVERLAP), scaled with chunk_size
chunk_overlap == 8

\* settings.top_k (TOP_K): the number of passages a retrieval returns at most
top_k == 1

\* the number of passages the collection holds at most in the model
MaxDocs == 4

\* the number of names uploaded_documents holds at most in the model
MaxUploads == 1

\* the number of messages the chat history file holds at most in the model
MaxHistory == 2

(***************************************************************************)
(* The PDF files of the model                                              *)
(*                                                                         *)
(* A page is what PyMuPDF and PaddleOCR report for it: text is             *)
(* page.get_text("text"), blocks are the text blocks with their y          *)
(* coordinate, tables are the rows table.extract() yields, ocr_en and      *)
(* ocr_hi are the lines the English and the Hindi engine recognise; name    *)
(* is the name the file is uploaded under and tmp the path of the          *)
(* temporary file the shell saves it to.                                   *)
(* No text of the model holds a digit.                                     *)
(***************************************************************************)

\* "Revenue grew strongly this year. Costs fell sharply too."
T_REVENUE == <<82, 101, 118, 101, 110, 117, 101, 32, 103, 114, 101, 119, 32, 115, 116, 114, 111, 110, 103, 108, 121, 32, 116, 104, 105, 115, 32, 121, 101, 97, 114, 46, 32, 67, 111, 115, 116, 115, 32, 102, 101, 108, 108, 32, 115, 104, 97, 114, 112, 108, 121, 32, 116, 111, 111, 46>>

\* "Some limitations were identified."
T_LIMITS == <<83, 111, 109, 101, 32, 108, 105, 109, 105, 116, 97, 116, 105, 111, 110, 115, 32, 119, 101, 114, 101, 32, 105, 100, 101, 110, 116, 105, 102, 105, 101, 100, 46>>

\* "SCANNED COPY"
T_STAMP == <<83, 67, 65, 78, 78, 69, 68, 32, 67, 79, 80, 89>>

\* a cover page without text that shows a table, then a page of text
PdfReport == [
    name  |-> <<114, 101, 112, 111, 114, 116, 46, 112, 100, 102>>,  \* "report.pdf"
    tmp   |-> "/tmp/tmp_report.pdf",
    pages |-> <<
        [text |-> <<>>, blocks |-> <<>>,
         tables |-> << << <<<<97, 98>>, <<99, 100>>>>, <<<<101, 102>>, <<>> >> >> >>,
         ocr_en |-> <<>>, ocr_hi |-> <<>>],
        [text |-> T_REVENUE, blocks |-> <<[y |-> 10, text |-> T_REVENUE]>>,
         tables |-> <<>>, ocr_en |-> <<>>, ocr_hi |-> <<>>]
    >>]

\* one scanned page: a stamp in the text layer, the content found by OCR
PdfScan == [
    name  |-> <<115, 99, 97, 110, 46, 112, 100, 102>>,  \* "scan.pdf"
    tmp   |-> "/tmp/tmp_scan.pdf",
    pages |-> <<
        [text |-> T_STAMP, blocks |-> <<[y |-> 5, text |-> T_STAMP]>>,
         tables |-> <<>>, ocr_en |-> <<T_LIMITS>>, ocr_hi |-> <<>>]
    >>]

Pdfs == {PdfReport, PdfScan}

\* "Income rose a little in the second half of year.": 48 characters
T_INCOME == <<73, 110, 99, 111, 109, 101, 32, 114, 111, 115, 101, 32, 97, 32, 108, 105, 116, 116, 108, 101, 32, 105, 110, 32, 116, 104, 101, 32, 115, 101, 99, 111, 110, 100, 32, 104, 97, 108, 102, 32, 111, 102, 32, 121, 101, 97, 114, 46>>

\* "Some limitations are identified.": 32 characters
T_ARE == <<83, 111, 109, 101, 32, 108, 105, 109, 105, 116, 97, 116, 105, 111, 110, 115, 32, 97, 114, 101, 32, 105, 100, 101, 110, 116, 105, 102, 105, 101, 100, 46>>

\* pages whose text layer ends in line breaks, as get_text("text") writes
\* them: a page of text that OCR reads too, a page of 48 characters of text
\* and two line breaks that OCR reads too, a page whose text layer is one
\* line break, a page of text followed by blank lines
PdfMixed == [
    name  |-> <<109, 105, 120, 101, 100, 46, 112, 100, 102>>,  \* "mixed.pdf"
    tmp   |-> "/tmp/tmp_mixed.pdf",
    pages |-> <<
        [text |-> T_REVENUE \o <<10>>, blocks |-> <<>>,
         tables |-> <<>>, ocr_en |-> <<T_LIMITS>>, ocr_hi |-> <<>>],
        [text |-> T_INCOME \o <<10, 10>>, blocks |-> <<>>,
         tables |-> <<>>, ocr_en |-> <<T_LIMITS>>, ocr_hi |-> <<>>],
        [text |-> <<10>>, blocks |-> <<>>,
         tables |-> <<>>, ocr_en |-> <<>>, ocr_hi |-> <<>>],
        [text |-> T_ARE \o <<10, 10, 10, 10, 10, 10, 10, 10, 10>>, blocks |-> <<>>,
         tables |-> <<>>, ocr_en |-> <<>>, ocr_hi |-> <<>>]
    >>]

\* the files ingest_file is run on, one call at a time
IngestPdfs == Pdfs \cup {PdfMixed}

\* what can go wrong while one file is ingested; at most one thing does, on
\* the page the environment names
PageFaults == {"find_tables", "get_pixmap", "preprocess", "cvtColor", "ocr_en", "ocr_hi"}

FileFaults ==
    {"none", "open", "load_ocr", "read_csv", "add_documents", "persist",
     "delete_collection", "reopen", "load_llm_clear", "load_llm"}

Envs(pdf) ==
    {[fault |-> f, page |-> 1] : f \in FileFaults}
        \cup {[fault |-> f, page |-> p] : f \in PageFaults, p \in 1..Len(pdf.pages)}

(***************************************************************************)
(* Extraction (src/ingest.py)                                              *)
(***************************************************************************)

\* str.isupper(): a cased character exists and none is lowercase
isupper(s) ==
    /\ \E i \in 1..Len(s) : s[i] \in 65..90
    /\ \A i \in 1..Len(s) : s[i] \notin 97..122

\* sorted(blocks, key=lambda b: b[1]): stable, by the y coordinate
RECURSIVE SortByY(_)
SortByY(blocks) ==
    IF blocks = <<>> THEN <<>>
    ELSE LET first == Min({i \in 1..Len(blocks) :
                              \A j \in 1..Len(blocks) : blocks[i].y <= blocks[j].y})
         IN  <<blocks[first]>>
               \o SortByY(SubSeq(blocks, 1, first - 1) \o SubSeq(blocks, first + 1, Len(blocks)))

\* ingest.py 46-71: the first block from the top that is all capitals or
\* longer than 20 characters, blocks under 10 characters skipped; <<>> is None
extract_title_from_first_page(doc) ==
    LET blocks == SortByY(doc.pages[1].blocks)
        titles == {i \in 1..Len(blocks) :
                      LET text == strip(blocks[i].text)
                      IN  Len(text) >= 10 /\ (isupper(text) \/ Len(text) > 20)}
    IN  IF titles = {} THEN <<>> ELSE strip(blocks[Min(titles)].text)

\* DataFrame.to_csv(index=False): a header of column numbers, then the rows,
\* cells separated by commas, None written as the empty cell
CsvLine(cells) == join(<<44>>, cells) \o <<10>>

RECURSIVE CsvLines(_)
CsvLines(rows) ==
    IF rows = <<>> THEN <<>> ELSE CsvLine(rows[1]) \o CsvLines(Tail(rows))

\* the decimal digits of a column number below 10
ColumnName(n) == <<48 + n>>

to_csv(rows) ==
    CsvLine([c \in 1..Len(rows[1]) |-> ColumnName(c - 1)]) \o CsvLines(rows)

\* ingest.py 80-92: the tables of the page as CSV text; a failing
\* find_tables yields no table
extract_tables(page, env, idx) ==
    IF env.fault = "find_tables" /\ env.page = idx THEN <<>>
    ELSE [t \in 1..Len(page.tables) |-> to_csv(page.tables[t])]

\* ingest.py 95-154: the recognised lines of both engines joined by newlines;
\* a failing recognition is skipped, any earlier failure raises
ocr_page_raises(env, idx) ==
    \/ env.fault = "load_ocr" /\ idx = 1
    \/ env.fault \in {"get_pixmap", "preprocess", "cvtColor"} /\ env.page = idx

ocr_page(page, env, idx) ==
    LET en == IF env.fault = "ocr_en" /\ env.page = idx THEN <<>> ELSE page.ocr_en
        hi == IF env.fault = "ocr_hi" /\ env.page = idx THEN <<>> ELSE page.ocr_hi
    IN  strip(join(<<10>>, en \o hi))

\* "Document Title: "
TitlePrefix == <<68, 111, 99, 117, 109, 101, 110, 116, 32, 84, 105, 116, 108, 101, 58, 32>>

\* ingest.py 165-181: the PageExtraction of page idx (1-based here)
extract_page(doc, title, env, idx) ==
    LET page == doc.pages[idx]
        text == IF idx = 1 /\ title # <<>>
                THEN TitlePrefix \o title \o <<10, 10>> \o page.text
                ELSE page.text
    IN  [text |-> text, tables |-> extract_tables(page, env, idx),
         ocr_text |-> ocr_page(page, env, idx)]

\* ingest.py 160-183: ok says that no exception left extract_pdf; pages are
\* the PageExtractions it returns
extract_pdf(doc, env) ==
    LET title  == extract_title_from_first_page(doc)
        raises == \/ env.fault = "open"
                  \/ \E idx \in 1..Len(doc.pages) : ocr_page_raises(env, idx)
    IN  IF raises THEN [ok |-> FALSE, pages |-> <<>>]
        ELSE [ok |-> TRUE,
              pages |-> [idx \in 1..Len(doc.pages) |-> extract_page(doc, title, env, idx)]]

(***************************************************************************)
(* Assembly and chunking (src/ingest.py)                                   *)
(***************************************************************************)

\* PageText measuring the text layer as extracted, surrounding whitespace
\* counted
PageText_unstripped_length(page) ==
    LET extracted_text_len == Len(page.text)
        ocr_text_len == IF page.ocr_text # <<>> THEN Len(strip(page.ocr_text)) ELSE 0
    IN  IF extracted_text_len < 50 /\ ocr_text_len > 0 THEN page.ocr_text
        ELSE IF strip(page.text) # <<>> /\ page.ocr_text # <<>>
        THEN page.text \o <<10, 10>> \o page.ocr_text
        ELSE IF strip(page.text) # <<>> THEN page.text
        ELSE IF page.ocr_text # <<>> THEN page.ocr_text
        ELSE <<>>

\* ingest.py 191-211: the text a page contributes
PageText(page) ==
    LET extracted_text_len == Len(strip(page.text))
        ocr_text_len == IF page.ocr_text # <<>> THEN Len(strip(page.ocr_text)) ELSE 0
    IN  IF extracted_text_len < 50 /\ ocr_text_len > 0 THEN page.ocr_text
        ELSE IF strip(page.text) # <<>> /\ page.ocr_text # <<>>
        THEN page.text \o <<10, 10>> \o page.ocr_text
        ELSE IF strip(page.text) # <<>> THEN page.text
        ELSE IF page.ocr_text # <<>> THEN page.ocr_text
        ELSE <<>>

\* ingest.py 213-214: the texts of the text-bearing pages, in page order
RECURSIVE TextBlocks(_, _)
TextBlocks(pages, idx) ==
    IF idx > Len(pages) THEN <<>>
    ELSE LET page_text == PageText(pages[idx])
         IN  (IF strip(page_text) # <<>> THEN <<page_text>> ELSE <<>>)
               \o TextBlocks(pages, idx + 1)

Document(content, source, page, type) ==
    [page_content |-> content, source |-> source, page |-> page, type |-> type]

\* pd.read_csv of the text to_csv wrote: the first line names the columns,
\* every further line is a row, an empty cell is read as NaN
CsvRows(table_csv) ==
    LET lines == SelectSeq(SplitOn(table_csv, <<10>>), LAMBDA l : l # <<>>)
    IN  [r \in 1..(Len(lines) - 1) |-> SplitOn(lines[r + 1], <<44>>)]

\* str(v) of a cell read back
CellStr(cell) == IF cell = <<>> THEN <<110, 97, 110>> ELSE cell

\* ingest.py 229-236: one table_row document per row, cells joined by " | "
RowDocuments(table_csv, source, idx) ==
    LET rows == CsvRows(table_csv)
    IN  [r \in 1..Len(rows) |->
            Document(join(<<32, 124, 32>>, [c \in 1..Len(rows[r]) |-> CellStr(rows[r][c])]),
                     source, idx, "table_row")]

\* ingest.py 217-236: the documents of the tables of page idx (1-based here,
\* so idx is the code's idx + 1); a table that read_csv rejects is stored whole
RECURSIVE TableDocuments(_, _, _, _, _)
TableDocuments(tables, t, source, idx, env) ==
    IF t > Len(tables) THEN <<>>
    ELSE (IF env.fault = "read_csv"
          THEN <<Document(tables[t], source, idx, "table")>>
          ELSE RowDocuments(tables[t], source, idx))
           \o TableDocuments(tables, t + 1, source, idx, env)

RECURSIVE AllTableDocuments(_, _, _, _)
AllTableDocuments(pages, idx, source, env) ==
    IF idx > Len(pages) THEN <<>>
    ELSE TableDocuments(pages[idx].tables, 1, source, idx, env)
           \o AllTableDocuments(pages, idx + 1, source, env)

\* the windows as they are cut, neither stripped nor dropped when blank
RECURSIVE Windows_unstripped(_, _)
Windows_unstripped(text, start) ==
    LET stop == Min({start + chunk_size - 1, Len(text)})
    IN  IF start > Len(text) THEN <<>>
        ELSE <<SubSeq(text, start, stop)>>
               \o (IF stop = Len(text) THEN <<>>
                   ELSE Windows_unstripped(text, start + chunk_size - chunk_overlap))

\* RecursiveCharacterTextSplitter.split_text (ingest.py 238-242), as the
\* windows its last separator "" yields: chunk_size characters each, the next
\* window chunk_overlap characters before the end of the last, every chunk
\* stripped and no chunk empty
RECURSIVE Windows(_, _)
Windows(text, start) ==
    LET stop  == Min({start + chunk_size - 1, Len(text)})
        chunk == strip(SubSeq(text, start, stop))
    IN  IF start > Len(text) THEN <<>>
        ELSE (IF chunk # <<>> THEN <<chunk>> ELSE <<>>)
               \o (IF stop = Len(text) THEN <<>>
                   ELSE Windows(text, start + chunk_size - chunk_overlap))

split_text(block) == Windows(block, 1)

\* ingest.py 243-250: the text documents of the blocks from block i on; the
\* page written is the position of the block in text_blocks (the code's i + 1)
RECURSIVE TextDocuments(_, _, _)
TextDocuments(text_blocks, i, source) ==
    IF i > Len(text_blocks) THEN <<>>
    ELSE LET chunks == split_text(text_blocks[i])
         IN  [c \in 1..Len(chunks) |-> Document(chunks[c], source, i, "text")]
               \o TextDocuments(text_blocks, i + 1, source)

\* ingest.py 187-251
build_documents(pages, source, env) ==
    AllTableDocuments(pages, 1, source, env)
        \o TextDocuments(TextBlocks(pages, 1), 1, source)

\* extract_pdf and build_documents of every file of the model under every
\* environment, computed once
Extracted ==
    [pdf \in IngestPdfs |-> [env \in Envs(pdf) |->
        LET extracted == extract_pdf(pdf, env)
        IN  [ok   |-> extracted.ok,
             docs |-> build_documents(extracted.pages, pdf.tmp, env)]]]

\* add_documents replacing what the collection holds by the new passages
add_and_persist_replacing(extracted, live, stored, fault) ==
    IF ~extracted.ok \/ ~live \/ fault = "add_documents"
    THEN [ok |-> FALSE, count |-> 0, stored |-> stored]
    ELSE IF fault = "persist"
    THEN [ok |-> FALSE, count |-> 0, stored |-> extracted.docs]
    ELSE [ok |-> TRUE, count |-> Len(extracted.docs), stored |-> extracted.docs]

\* ingest.py 259-262: add_documents, persist and the count returned, for
\* what extraction and assembly gave; live says that the handle of the store
\* refers to a collection, add_documents raises on a deleted one
add_and_persist(extracted, live, stored, fault) ==
    IF ~extracted.ok \/ ~live \/ fault = "add_documents"
    THEN [ok |-> FALSE, count |-> 0, stored |-> stored]
    ELSE IF fault = "persist"
    THEN [ok |-> FALSE, count |-> 0, stored |-> stored \o extracted.docs]
    ELSE [ok |-> TRUE, count |-> Len(extracted.docs),
          stored |-> stored \o extracted.docs]

\* ingest.py 254-262: ok says that ingest_file returned, count is len(docs),
\* stored is the collection afterwards.  The path is the temporary file the
\* shell has just written, so it exists
ingest_file(live, stored, pdf, env) ==
    add_and_persist(Extracted[pdf][env], live, stored, env.fault)

(***************************************************************************)
(* The vector store (src/vector_store.py) and the chain (src/qa.py)        *)
(*                                                                         *)
(* stored is the content of the Chroma collection on disk.  A handle (the  *)
(* _db of the store, the retriever of a chain) is live while the           *)
(* collection it was opened on exists; deleting the collection leaves      *)
(* every handle opened before dead.                                        *)
(***************************************************************************)

\* get_document_count counting one passage too many: an empty index is taken
\* for one that holds a passage
get_document_count_one_more(live, stored, readable) ==
    IF live /\ readable THEN Len(stored) + 1 ELSE 0

\* vector_store.py 55-61: an exception of _db.get() is answered with 0;
\* readable says that the index can be read when the count is taken
get_document_count(live, stored, readable) ==
    IF live /\ readable THEN Len(stored) ELSE 0

\* vector_store.py 63-75: an exception of delete_collection is swallowed,
\* then the collection is opened again under the same name; raised says that
\* opening raised
clear(live, chain, stored, fault) ==
    LET deleted == live /\ fault # "delete_collection"
    IN  [raised     |-> fault = "reopen",
         stored     |-> IF deleted THEN <<>> ELSE stored,
         store_live |-> IF fault = "reopen" THEN live /\ ~deleted ELSE TRUE,
         chain_live |-> chain /\ ~deleted]

\* qa.py 266-278: the chain built reads through the handle the store holds
\* now; load_llm may raise
build_chain(live, raises) == [raised |-> raises, chain_live |-> live]

\* the passages a retrieval returns (vector_store.py 37-50): top_k of the
\* stored ones, or all of them where fewer are stored, whichever the
\* embeddings of the query select; the score threshold drops none
Retrievals(stored) ==
    {[k \in DOMAIN pos |-> stored[pos[k]]] :
        pos \in {q \in [1..Min({top_k, Len(stored)}) -> 1..Len(stored)] :
                    \A a, b \in DOMAIN q : a # b => q[a] # q[b]}}

\* main.py 243-247 and app.py 139-142: the clearing branch; raised says that
\* clear or build_chain raised, reset that the branch ran to its end
clear_branch(live, chain, stored, clear_existing, fault) ==
    LET c == clear(live, chain, stored, fault)
        b == build_chain(c.store_live, fault = "load_llm_clear")
    IN  IF ~clear_existing
        THEN [raised |-> FALSE, reset |-> FALSE, stored |-> stored,
              store_live |-> live, chain_live |-> chain]
        ELSE IF c.raised \/ b.raised
        THEN [raised |-> TRUE, reset |-> FALSE, stored |-> c.stored,
              store_live |-> c.store_live, chain_live |-> c.chain_live]
        ELSE [raised |-> FALSE, reset |-> TRUE, stored |-> c.stored,
              store_live |-> c.store_live, chain_live |-> b.chain_live]

\* main.py 253-259 and app.py 144-146: after the clearing branch c and the
\* ingestion ing, the chain is built again
rebuild(c, ing, fault) ==
    IF c.raised
    THEN [ok |-> FALSE, reset |-> FALSE, count |-> 0, stored |-> c.stored,
          store_live |-> c.store_live, chain_live |-> c.chain_live]
    ELSE IF ~ing.ok \/ build_chain(c.store_live, fault = "load_llm").raised
    THEN [ok |-> FALSE, reset |-> c.reset, count |-> 0, stored |-> ing.stored,
          store_live |-> c.store_live, chain_live |-> c.chain_live]
    ELSE [ok |-> TRUE, reset |-> c.reset, count |-> ing.count,
          stored |-> ing.stored, store_live |-> c.store_live,
          chain_live |-> build_chain(c.store_live, FALSE).chain_live]

\* main.py 250-256: ingest_file after the clearing branch c
ingest_after(c, pdf, env) ==
    rebuild(c, ingest_file(c.store_live, c.stored, pdf, env), env.fault)

\* main.py 243-262 and app.py 137-146: the optional clear, the ingestion and
\* the two rebuilds of the chain
clear_and_ingest(live, chain, stored, pdf, clear_existing, env) ==
    ingest_after(clear_branch(live, chain, stored, clear_existing, env.fault),
                 pdf, env)

\* ---------------------------------------------------------------------------
\* Answering (backend/main.py, app.py)
\* ---------------------------------------------------------------------------

\* the messages of the two shells, as the code writes them
\* "\u26a0\ufe0f **No documents found in the database.**\n\nPlease upload a PDF first."
NO_DOCUMENTS_BACKEND == <<9888, 65039, 32, 42, 42, 78, 111, 32, 100, 111, 99, 117, 109, 101, 110, 116, 115, 32, 102, 111, 117, 110, 100, 32, 105, 110, 32, 116, 104, 101, 32, 100, 97, 116, 97, 98, 97, 115, 101, 46, 42, 42, 10, 10, 80, 108, 101, 97, 115, 101, 32, 117, 112, 108, 111, 97, 100, 32, 97, 32, 80, 68, 70, 32, 102, 105, 114, 115, 116, 46>>
\* "\u26a0\ufe0f **No documents found in the database.**\n\nPlease upload a PDF first using the sidebar."
NO_DOCUMENTS_APP == <<9888, 65039, 32, 42, 42, 78, 111, 32, 100, 111, 99, 117, 109, 101, 110, 116, 115, 32, 102, 111, 117, 110, 100, 32, 105, 110, 32, 116, 104, 101, 32, 100, 97, 116, 97, 98, 97, 115, 101, 46, 42, 42, 10, 10, 80, 108, 101, 97, 115, 101, 32, 117, 112, 108, 111, 97, 100, 32, 97, 32, 80, 68, 70, 32, 102, 105, 114, 115, 116, 32, 117, 115, 105, 110, 103, 32, 116, 104, 101, 32, 115, 105, 100, 101, 98, 97, 114, 46>>
\* "\u26a0\ufe0f **No response generated.**\n\nThe model did not produce an answer. Please check the source documents below."
NO_RESPONSE_BACKEND == <<9888, 65039, 32, 42, 42, 78, 111, 32, 114, 101, 115, 112, 111, 110, 115, 101, 32, 103, 101, 110, 101, 114, 97, 116, 101, 100, 46, 42, 42, 10, 10, 84, 104, 101, 32, 109, 111, 100, 101, 108, 32, 100, 105, 100, 32, 110, 111, 116, 32, 112, 114, 111, 100, 117, 99, 101, 32, 97, 110, 32, 97, 110, 115, 119, 101, 114, 46, 32, 80, 108, 101, 97, 115, 101, 32, 99, 104, 101, 99, 107, 32, 116, 104, 101, 32, 115, 111, 117, 114, 99, 101, 32, 100, 111, 99, 117, 109, 101, 110, 116, 115, 32, 98, 101, 108, 111, 119, 46>>
\* "Answer not found in context"
NOT_FOUND_EN == <<65, 110, 115, 119, 101, 114, 32, 110, 111, 116, 32, 102, 111, 117, 110, 100, 32, 105, 110, 32, 99, 111, 110, 116, 101, 120, 116>>
\* "\u0909\u0924\u094d\u0924\u0930 \u0938\u0902\u0926\u0930\u094d\u092d \u092e\u0947\u0902 \u0928\u0939\u0940\u0902 \u092e\u093f\u0932\u093e"
NOT_FOUND_HI == <<2313, 2340, 2381, 2340, 2352, 32, 2360, 2306, 2342, 2352, 2381, 2349, 32, 2350, 2375, 2306, 32, 2344, 2361, 2368, 2306, 32, 2350, 2367, 2354, 2366>>
\* "NOT_FOUND"
NOT_FOUND == <<78, 79, 84, 95, 70, 79, 85, 78, 68>>
\* "Failed to generate answer: "
FAILED_TO_GENERATE == <<70, 97, 105, 108, 101, 100, 32, 116, 111, 32, 103, 101, 110, 101, 114, 97, 116, 101, 32, 97, 110, 115, 119, 101, 114, 58, 32>>
\* "Failed to ingest PDF: "
FAILED_TO_INGEST == <<70, 97, 105, 108, 101, 100, 32, 116, 111, 32, 105, 110, 103, 101, 115, 116, 32, 80, 68, 70, 58, 32>>
\* "\u274c **Error generating response:**\n\n```\n"
APP_ERROR_HEAD == <<10060, 32, 42, 42, 69, 114, 114, 111, 114, 32, 103, 101, 110, 101, 114, 97, 116, 105, 110, 103, 32, 114, 101, 115, 112, 111, 110, 115, 101, 58, 42, 42, 10, 10, 96, 96, 96, 10>>
\* "\n```\n\n**Full error details:**\n```\n"
APP_ERROR_MID == <<10, 96, 96, 96, 10, 10, 42, 42, 70, 117, 108, 108, 32, 101, 114, 114, 111, 114, 32, 100, 101, 116, 97, 105, 108, 115, 58, 42, 42, 10, 96, 96, 96, 10>>
\* "\n```"
APP_ERROR_TAIL == <<10, 96, 96, 96>>
\* "Traceback (most recent call last):\n"
TRACEBACK_HEAD == <<84, 114, 97, 99, 101, 98, 97, 99, 107, 32, 40, 109, 111, 115, 116, 32, 114, 101, 99, 101, 110, 116, 32, 99, 97, 108, 108, 32, 108, 97, 115, 116, 41, 58, 10>>
\* "name 'question' is not defined"
NAME_ERROR == <<110, 97, 109, 101, 32, 39, 113, 117, 101, 115, 116, 105, 111, 110, 39, 32, 105, 115, 32, 110, 111, 116, 32, 100, 101, 102, 105, 110, 101, 100>>

\* main.py 333
limitation_keywords ==
    <<
      <<108, 105, 109, 105, 116, 97, 116, 105, 111, 110>>,  \* "limitation"
      <<108, 105, 109, 105, 116, 97, 116, 105, 111, 110, 115>>,  \* "limitations"
      <<2325, 2350, 2368>>,  \* "\u0915\u092e\u0940"
      <<2360, 2368, 2350, 2366, 2319, 2306>>  \* "\u0938\u0940\u092e\u093e\u090f\u0902"
    >>
\* main.py 341-346
vague_mentions ==
    <<
      <<108, 105, 109, 105, 116, 97, 116, 105, 111, 110, 115, 32, 119, 101, 114, 101, 32, 105, 100, 101, 110, 116, 105, 102, 105, 101, 100>>,  \* "limitations were identified"
      <<108, 105, 109, 105, 116, 97, 116, 105, 111, 110, 115, 32, 97, 110, 100, 32, 115, 104, 111, 114, 116, 99, 111, 109, 105, 110, 103, 115, 32, 119, 101, 114, 101, 32, 105, 100, 101, 110, 116, 105, 102, 105, 101, 100>>,  \* "limitations and shortcomings were identified"
      <<108, 105, 109, 105, 116, 97, 116, 105, 111, 110, 115, 32, 119, 101, 114, 101>>,  \* "limitations were"
      <<115, 104, 111, 114, 116, 99, 111, 109, 105, 110, 103, 115, 32, 119, 101, 114, 101>>  \* "shortcomings were"
    >>
\* main.py 361-364
specific_mentions ==
    <<
      <<108, 105, 109, 105, 116, 97, 116, 105, 111, 110, 32, 105, 115>>,  \* "limitation is"
      <<108, 105, 109, 105, 116, 97, 116, 105, 111, 110, 32, 111, 102>>,  \* "limitation of"
      <<102, 105, 114, 115, 116, 32, 108, 105, 109, 105, 116, 97, 116, 105, 111, 110>>,  \* "first limitation"
      <<115, 101, 99, 111, 110, 100, 32, 108, 105, 109, 105, 116, 97, 116, 105, 111, 110>>,  \* "second limitation"
      <<109, 97, 105, 110, 32, 108, 105, 109, 105, 116, 97, 116, 105, 111, 110>>,  \* "main limitation"
      <<107, 101, 121, 32, 108, 105, 109, 105, 116, 97, 116, 105, 111, 110>>,  \* "key limitation"
      <<112, 114, 105, 109, 97, 114, 121, 32, 108, 105, 109, 105, 116, 97, 116, 105, 111, 110>>  \* "primary limitation"
    >>
\* main.py 350-354: each pattern is three literals joined by ".*"
generic_patterns_in_answer ==
    <<
      <<<<114, 101, 97, 108, 45, 116, 105, 109, 101>>, <<110, 101, 116, 119, 111, 114, 107>>, <<116, 114, 97, 102, 102, 105, 99>>>>,
      <<<<104, 97, 110, 100, 108, 101>>, <<110, 101, 116, 119, 111, 114, 107>>, <<116, 114, 97, 102, 102, 105, 99>>>>,
      <<<<97, 110, 97, 108, 121, 122, 101>>, <<110, 101, 116, 119, 111, 114, 107>>, <<116, 114, 97, 102, 102, 105, 99>>>>
    >>
\* app.py 22
hinglish_words ==
    <<
      <<107, 121, 97>>,  \* "kya"
      <<107, 97>>,  \* "ka"
      <<107, 105>>,  \* "ki"
      <<104, 97, 105>>,  \* "hai"
      <<107, 111>>,  \* "ko"
      <<109, 101>>,  \* "me"
      <<115, 101>>  \* "se"
    >>

\* the questions asked
\* "What limitations exist?"
Q_LIMITS == <<87, 104, 97, 116, 32, 108, 105, 109, 105, 116, 97, 116, 105, 111, 110, 115, 32, 101, 120, 105, 115, 116, 63>>
\* "\u0938\u0940\u092e\u093e\u090f\u0902 \u0915\u094d\u092f\u093e \u0939\u0948\u0902?"
Q_SEEMAEN == <<2360, 2368, 2350, 2366, 2319, 2306, 32, 2325, 2381, 2351, 2366, 32, 2361, 2376, 2306, 63>>

Questions == {Q_LIMITS, Q_SEEMAEN}

\* what the generator answers with, when it answers
\* ""
A_EMPTY == <<>>
\* " \n"
A_BLANK == <<32, 10>>
\* "The answer is: Revenue grew strongly this year."
A_GROUNDED == <<84, 104, 101, 32, 97, 110, 115, 119, 101, 114, 32, 105, 115, 58, 32, 82, 101, 118, 101, 110, 117, 101, 32, 103, 114, 101, 119, 32, 115, 116, 114, 111, 110, 103, 108, 121, 32, 116, 104, 105, 115, 32, 121, 101, 97, 114, 46>>
\* "It cannot handle real-time network traffic."
A_GENERIC == <<73, 116, 32, 99, 97, 110, 110, 111, 116, 32, 104, 97, 110, 100, 108, 101, 32, 114, 101, 97, 108, 45, 116, 105, 109, 101, 32, 110, 101, 116, 119, 111, 114, 107, 32, 116, 114, 97, 102, 102, 105, 99, 46>>

RawAnswers == {A_EMPTY, A_BLANK, NOT_FOUND, A_GROUNDED, A_GENERIC}

\* the messages of the exceptions the generator and the retriever raise with
\* "model crashed"
GENERATOR_ERROR == <<109, 111, 100, 101, 108, 32, 99, 114, 97, 115, 104, 101, 100>>
\* "collection does not exist"
RETRIEVER_ERROR == <<99, 111, 108, 108, 101, 99, 116, 105, 111, 110, 32, 100, 111, 101, 115, 32, 110, 111, 116, 32, 101, 120, 105, 115, 116>>
\* "RuntimeError"
RUNTIME_ERROR == <<82, 117, 110, 116, 105, 109, 101, 69, 114, 114, 111, 114>>
\* "NameError"
NAME_ERROR_KIND == <<78, 97, 109, 101, 69, 114, 114, 111, 114>>

\* app.py 19-24
detect_language(text) ==
    IF \E i \in 1..Len(text) : text[i] \in 2304..2431 THEN "hindi"
    ELSE IF \E w \in 1..Len(hinglish_words) : Contains(text, hinglish_words[w])
    THEN "hinglish"
    ELSE "english"

\* main.py 367: any(0x0900 <= ord(c) <= 0x097F for c in question)
is_hindi(question) == \E i \in 1..Len(question) : question[i] \in 2304..2431

\* re.split(r'[.!?|]\s+', content) from position i on, | the danda (main.py 166)
RECURSIVE SentenceSplit(_, _)
SentenceSplit(content, i) ==
    LET cuts == {p \in i..(Len(content) - 1) :
                    content[p] \in Terminators /\ content[p + 1] \in WhiteSpace}
    IN  IF cuts = {} THEN <<SubSeq(content, i, Len(content))>>
        ELSE <<SubSeq(content, i, Min(cuts) - 1)>>
               \o SentenceSplit(content, SkipClass(content, Min(cuts) + 1, WhiteSpace))

\* main.py 162-170: the first of the first three sentences of a document that
\* is longer than 20 characters, from document d on
RECURSIVE FirstSentence(_, _)
FirstSentence(source_docs, d) ==
    IF d > Len(source_docs) THEN <<>>
    ELSE LET sentences  == SentenceSplit(source_docs[d].page_content, 1)
             meaningful == {k \in 1..Min({3, Len(sentences)}) :
                               Len(strip(sentences[k])) > 20}
         IN  IF meaningful # {}
             THEN strip(sentences[Min(meaningful)]) \o <<46>>
             ELSE FirstSentence(source_docs, d + 1)

\* a digit occurs in the text
HasDigit(text) == \E i \in 1..Len(text) : text[i] \in Digits

\* main.py 71-172.  Every pattern of the accuracy branch (90-127) holds \d and
\* every pattern of the dataset branch (130-161) holds 2017, so on passages
\* without a digit both branches fall through to the generic one; the stored
\* passages of this model hold no digit (NoDigitStored)
extract_answer_from_sources(question, source_docs) ==
    IF source_docs = <<>> THEN <<>>
    ELSE FirstSentence(source_docs, 1)

\* re.search(a.*b.*c, answer, re.IGNORECASE): the three literals in order on
\* one line
InOrder(s, pat) ==
    \E p1 \in 1..Len(s) :
        /\ MatchAt(s, p1, pat[1])
        /\ \E p2 \in (p1 + Len(pat[1]))..Len(s) :
            /\ MatchAt(s, p2, pat[2])
            /\ \E p3 \in (p2 + Len(pat[2]))..Len(s) :
                /\ MatchAt(s, p3, pat[3])
                /\ \A k \in p1..p3 : s[k] # 10

\* main.py 336-339
all_source_content(source_docs) ==
    LowerStr(join(<<32>>, [d \in 1..Len(source_docs) |-> source_docs[d].page_content]))

\* main.py 332-367: the answer to a question about limitations is replaced by
\* the not-found message when the passages mention limitations only vaguely
\* and the answer holds one of the generic patterns
limitations_check(question, answer, source_docs) ==
    LET content == all_source_content(source_docs)
        has_keyword == \E k \in 1..Len(limitation_keywords) :
                           ContainsExact(LowerStr(question), limitation_keywords[k])
        has_vague_mention == \E k \in 1..Len(vague_mentions) :
                                 ContainsExact(content, vague_mentions[k])
        has_generic == \E k \in 1..Len(generic_patterns_in_answer) :
                           InOrder(answer, generic_patterns_in_answer[k])
        has_specific == \E k \in 1..Len(specific_mentions) :
                            ContainsExact(content, specific_mentions[k])
    IN  IF has_keyword /\ has_vague_mention /\ has_generic /\ ~has_specific
        THEN (IF is_hindi(question) THEN NOT_FOUND_HI ELSE NOT_FOUND_EN)
        ELSE answer

\* clean_answer of every text the generator answers with, computed once
Cleaned == [a \in RawAnswers |-> clean_answer(a)]

\* main.py 325-330: the cleaned answer, or the stripped raw answer when
\* cleaning left nothing
cleaned_or_raw(cleaned, raw_answer) ==
    IF cleaned = <<>> \/ strip(cleaned) = <<>> THEN strip(raw_answer) ELSE cleaned

\* main.py 324-373: the answer of /api/ask from what the chain returned
backend_answer(question, raw_answer, source_docs) ==
    IF raw_answer # <<>> /\ strip(raw_answer) # <<>>
    THEN limitations_check(question,
                           cleaned_or_raw(Cleaned[raw_answer], raw_answer),
                           source_docs)
    ELSE LET extracted == extract_answer_from_sources(question, source_docs)
         IN  IF extracted = <<>> THEN NO_RESPONSE_BACKEND ELSE extracted

\* main.py 376-383 and app.py 283-291: what is returned and stored of a passage
serialize(source_docs) ==
    [d \in 1..Len(source_docs) |->
        [source  |-> source_docs[d].source,
         page    |-> source_docs[d].page,
         type    |-> source_docs[d].type,
         content |-> SubSeq(source_docs[d].page_content, 1,
                            Min({500, Len(source_docs[d].page_content)}))]]

\* app.py 259-262: the answer shown for an exception of class kind with
\* message err; traceback.format_exc() is written without its frame lines
app_error_answer(kind, err) ==
    APP_ERROR_HEAD \o err \o APP_ERROR_MID
        \o TRACEBACK_HEAD \o kind \o <<58, 32>> \o err \o <<10>>
        \o APP_ERROR_TAIL

(***************************************************************************)
(* The state of a running shell                                            *)
(***************************************************************************)

VARIABLES
    shell,               \* "backend" (backend/main.py) or "app" (app.py)
    collection,          \* the passages of the Chroma collection on disk
    store_live,          \* the handle vector_store._db is live
    chain_live,          \* the retriever handle of qa_chain is live
    uploaded_documents,  \* main.py 47
    chat_history,        \* chat_history.json
    resp,                \* what the last request was answered with
    job                  \* the position and the locals of a run of ingest_file

vars == <<shell, collection, store_live, chain_live,
          uploaded_documents, chat_history, resp, job>>

\* "notes.txt": an upload that is no PDF
FileTxt == [name |-> <<110, 111, 116, 101, 115, 46, 116, 120, 116>>, tmp |-> "", pages |-> <<>>]

Files == Pdfs \cup {FileTxt}

\* what goes wrong while an upload is served, at most one thing: the file
\* cannot be opened (as every failure that leaves extract_pdf, it ends the
\* ingestion before the store is written), a call on the store or the load
\* of the model raises
UploadEnvs ==
    {[fault |-> f, page |-> 1] :
        f \in {"none", "open", "add_documents", "persist",
                "delete_collection", "reopen", "load_llm_clear", "load_llm"}}

\* str.endswith
endswith(s, suffix) ==
    /\ Len(s) >= Len(suffix)
    /\ SubSeq(s, Len(s) - Len(suffix) + 1, Len(s)) = suffix

\* ".pdf"
DOT_PDF == <<46, 112, 100, 102>>

\* the outcomes of qa_chain.invoke: the retriever raises (it does on a dead
\* handle), or it returns passages and the generator raises or answers
ChainOutcomes(stored, live) ==
    IF ~live
    THEN {[retriever |-> "raised", retrieved |-> <<>>, generator |-> "none", raw |-> <<>>]}
    ELSE {[retriever |-> "raised", retrieved |-> <<>>, generator |-> "none", raw |-> <<>>]}
           \cup {[retriever |-> "returned", retrieved |-> r, generator |-> "raised", raw |-> <<>>] :
                    r \in Retrievals(stored)}
           \cup {[retriever |-> "returned", retrieved |-> r, generator |-> "returned", raw |-> a] :
                    r \in Retrievals(stored), a \in RawAnswers}

\* main.py 192-199 and app.py 90-115: the shell has opened the store and built
\* the chain; the persist directory and the chat history file are new
Init ==
    /\ shell \in {"backend", "app"}
    /\ collection = <<>>
    /\ store_live = TRUE
    /\ chain_live = TRUE
    /\ uploaded_documents = <<>>
    /\ chat_history = <<>>
    /\ resp = [op |-> "startup", status |-> 200]
    /\ job = [pc |-> "idle"]

(***************************************************************************)
(* The requests of the backend (backend/main.py)                           *)
(*                                                                         *)
(* A handler runs to its end without giving up the event loop once it has  *)
(* touched the store, so each is one step.  resp.status is the HTTP status. *)
(***************************************************************************)

\* main.py 231-291, POST /api/upload
upload_pdf ==
    /\ shell = "backend"
    /\ \E file \in Files, clear_existing \in BOOLEAN :
        IF ~endswith(file.name, DOT_PDF)
        THEN /\ resp' = [op |-> "upload", status |-> 400, temp_file_left |-> FALSE]
             /\ UNCHANGED <<collection, store_live, chain_live,
                            uploaded_documents>>
        ELSE \E env \in UploadEnvs, readable \in BOOLEAN :
             \E r \in {clear_and_ingest(store_live, chain_live, collection,
                                         file, clear_existing, env)} :
             LET kept == IF r.reset THEN <<>> ELSE uploaded_documents
             IN  /\ env.fault \in {"delete_collection", "reopen", "load_llm_clear"}
                        => clear_existing
                 /\ Len(r.stored) <= MaxDocs
                 /\ r.ok => Len(kept) < MaxUploads
                 /\ ~r.ok => readable
                 /\ collection' = r.stored
                 /\ store_live' = r.store_live
                 /\ chain_live' = r.chain_live
                 /\ uploaded_documents' =
                        IF r.ok THEN Append(kept, file.name) ELSE kept
                 /\ resp' =
                        IF r.ok
                        THEN [op |-> "upload", status |-> 200,
                              clear_existing |-> clear_existing,
                              chunk_count |-> r.count,
                              document_count |->
                                  get_document_count(r.store_live, r.stored, readable),
                              document_name |-> file.name,
                              temp_file_left |-> FALSE]
                        ELSE [op |-> "upload", status |-> 500,
                              detail |-> FAILED_TO_INGEST,
                              temp_file_left |-> TRUE]
    /\ UNCHANGED <<shell, job, chat_history>>

\* main.py 294-407, POST /api/ask
ask_question ==
    /\ shell = "backend"
    /\ \E question \in Questions, readable \in BOOLEAN :
        IF get_document_count(store_live, collection, readable) = 0
        THEN /\ resp' = [op |-> "ask", status |-> 200, question |-> question,
                         readable |-> readable,
                         retriever |-> "none", retrieved |-> <<>>,
                         generator |-> "none", raw |-> <<>>,
                         answer |-> NO_DOCUMENTS_BACKEND,
                         source_documents |-> <<>>]
             /\ UNCHANGED chat_history
        ELSE \E o \in ChainOutcomes(collection, chain_live) :
             IF o.generator # "returned"
             THEN /\ resp' = [op |-> "ask", status |-> 500, question |-> question,
                              readable |-> readable,
                              retriever |-> o.retriever, retrieved |-> o.retrieved,
                              generator |-> o.generator, raw |-> o.raw,
                              detail |-> FAILED_TO_GENERATE \o
                                  (IF o.retriever = "raised" THEN RETRIEVER_ERROR
                                   ELSE GENERATOR_ERROR)]
                  /\ UNCHANGED chat_history
             ELSE \E answer \in {backend_answer(question, o.raw, o.retrieved)},
                     source_docs_serialized \in {serialize(o.retrieved)} :
                      /\ Len(chat_history) + 2 <= MaxHistory
                      /\ chat_history' = chat_history \o
                            <<[role |-> "user", content |-> question],
                              [role |-> "assistant", content |-> answer,
                               source_documents |-> source_docs_serialized]>>
                      /\ resp' = [op |-> "ask", status |-> 200, question |-> question,
                                  readable |-> readable,
                                  retriever |-> o.retriever, retrieved |-> o.retrieved,
                                  generator |-> o.generator, raw |-> o.raw,
                                  answer |-> answer,
                                  source_documents |-> source_docs_serialized]
    /\ UNCHANGED <<shell, job, collection, store_live, chain_live,
                   uploaded_documents>>

\* main.py 214-228, GET /api/status; <<>> is the document_name None
get_status ==
    /\ shell = "backend"
    /\ \E readable \in BOOLEAN :
        LET doc_count == get_document_count(store_live, collection, readable)
        IN  resp' = [op |-> "status", status |-> 200,
                     document_count |-> doc_count,
                     state |-> IF doc_count > 0 THEN "ready" ELSE "no_documents",
                     document_name |->
                         IF uploaded_documents # <<>>
                         THEN uploaded_documents[Len(uploaded_documents)]
                         ELSE <<>>]
    /\ UNCHANGED <<shell, job, collection, store_live, chain_live,
                   uploaded_documents, chat_history>>

\* main.py 410-425, POST /api/clear
clear_documents ==
    /\ shell = "backend"
    /\ \E fault \in {"none", "delete_collection", "reopen", "load_llm"} :
        LET c == clear(store_live, chain_live, collection, fault)
            b == build_chain(c.store_live, fault = "load_llm")
        IN  /\ collection' = c.stored
            /\ store_live' = c.store_live
            /\ chain_live' = IF c.raised \/ b.raised THEN c.chain_live ELSE b.chain_live
            /\ chat_history' = IF c.raised \/ b.raised THEN chat_history ELSE <<>>
            /\ resp' = [op |-> "clear",
                        status |-> IF c.raised \/ b.raised THEN 500 ELSE 200]
    /\ UNCHANGED <<shell, job, uploaded_documents>>

\* main.py 438-445, POST /api/chat-history/clear
clear_chat_history_endpoint ==
    /\ shell = "backend"
    /\ chat_history' = <<>>
    /\ resp' = [op |-> "clear_history", status |-> 200]
    /\ UNCHANGED <<shell, job, collection, store_live, chain_live,
                   uploaded_documents>>

(***************************************************************************)
(* The interactions of the Streamlit shell (app.py)                        *)
(*                                                                         *)
(* resp.status is 200 where the script shows its result and 500 where it   *)
(* shows "Ingest failed".  The chat history file is taken to be writable.  *)
(***************************************************************************)

\* app.py 128-158: a file is chosen in the sidebar
app_upload ==
    /\ shell = "app"
    /\ \E file \in Pdfs, clear_before_upload \in BOOLEAN : \E env \in UploadEnvs :
        \E r \in {clear_and_ingest(store_live, chain_live, collection,
                                    file, clear_before_upload, env)} :
            /\ env.fault \in {"delete_collection", "reopen", "load_llm_clear"}
                   => clear_before_upload
            /\ Len(r.stored) <= MaxDocs
            /\ collection' = r.stored
            /\ store_live' = r.store_live
            /\ chain_live' = r.chain_live
            /\ chat_history' = IF r.ok THEN <<>> ELSE chat_history
            /\ resp' = IF r.ok
                       THEN [op |-> "upload", status |-> 200,
                             clear_existing |-> clear_before_upload,
                             chunk_count |-> r.count, temp_file_left |-> TRUE]
                       ELSE [op |-> "upload", status |-> 500,
                             temp_file_left |-> TRUE]
    /\ UNCHANGED <<shell, job, uploaded_documents>>

\* app.py 204-305: a prompt is entered.  Once the chain has returned, line
\* 243 reads the name question, which the script never binds: the NameError
\* is caught at line 259 with every other exception, and lines 245-258 never
\* run
app_chat ==
    /\ shell = "app"
    /\ Len(chat_history) + 2 <= MaxHistory
    /\ \E prompt \in Questions, readable \in BOOLEAN :
        IF get_document_count(store_live, collection, readable) = 0
        THEN /\ chat_history' = chat_history \o
                    <<[role |-> "user", content |-> prompt],
                      [role |-> "assistant", content |-> NO_DOCUMENTS_APP,
                       source_docs |-> <<>>]>>
             /\ resp' = [op |-> "ask", status |-> 200, question |-> prompt,
                         readable |-> readable,
                         retriever |-> "none", retrieved |-> <<>>,
                         generator |-> "none", raw |-> <<>>,
                         answer |-> NO_DOCUMENTS_APP, source_documents |-> <<>>]
        ELSE \E o \in ChainOutcomes(collection, chain_live) :
             LET answer == IF o.retriever = "raised"
                           THEN app_error_answer(RUNTIME_ERROR, RETRIEVER_ERROR)
                           ELSE IF o.generator = "raised"
                           THEN app_error_answer(RUNTIME_ERROR, GENERATOR_ERROR)
                           ELSE app_error_answer(NAME_ERROR_KIND, NAME_ERROR)
             IN  /\ chat_history' = chat_history \o
                        <<[role |-> "user", content |-> prompt],
                          [role |-> "assistant", content |-> answer,
                           source_docs |-> <<>>]>>
                 /\ resp' = [op |-> "ask", status |-> 200, question |-> prompt,
                             readable |-> readable,
                             retriever |-> o.retriever, retrieved |-> o.retrieved,
                             generator |-> o.generator, raw |-> o.raw,
                             answer |-> answer, source_documents |-> <<>>]
    /\ UNCHANGED <<shell, job, collection, store_live, chain_live,
                   uploaded_documents>>

\* app.py 172-177: the button Clear Chat History
app_clear_chat ==
    /\ shell = "app"
    /\ chat_history' = <<>>
    /\ resp' = [op |-> "clear_history", status |-> 200]
    /\ UNCHANGED <<shell, job, collection, store_live, chain_live,
                   uploaded_documents>>

(***************************************************************************)
(* ingest_file, step by step (src/ingest.py)                               *)
(*                                                                         *)
(* One run of ingest_file(path, store) on a store that holds nothing:      *)
(* job.pc is the position of the run, job.pages the PageExtractions        *)
(* extract_pdf has appended so far, job.docs what build_documents          *)
(* returned.  pc "raised" says that an exception left ingest_file.         *)
(***************************************************************************)

\* the runs: a file of the model, or a path that names no file, under every
\* environment
IngestInit ==
    /\ shell = "backend"
    /\ collection = <<>>
    /\ store_live = TRUE
    /\ chain_live = TRUE
    /\ uploaded_documents = <<>>
    /\ chat_history = <<>>
    /\ resp = [op |-> "startup", status |-> 200]
    /\ \E pdf \in IngestPdfs, exists \in BOOLEAN : \E env \in Envs(pdf) :
        job = [pc |-> "start", pdf |-> pdf, exists |-> exists, env |-> env,
               pages |-> <<>>, docs |-> <<>>, count |-> 0]

\* ingest.py 255-256: a missing file raises FileNotFoundError
ingest_start ==
    /\ job.pc = "start"
    /\ job' = [job EXCEPT !.pc = IF job.exists THEN "open" ELSE "raised"]
    /\ UNCHANGED <<shell, collection, store_live, chain_live,
                   uploaded_documents, chat_history, resp>>

\* ingest.py 161-164: fitz.open and the title of the first page
extract_open ==
    /\ job.pc = "open"
    /\ job' = [job EXCEPT !.pc = IF job.env.fault = "open" THEN "raised" ELSE "page"]
    /\ UNCHANGED <<shell, collection, store_live, chain_live,
                   uploaded_documents, chat_history, resp>>

\* the loop over the pages handing the passages of each page to the store
\* as soon as the page is extracted
extract_next_page_storing ==
    /\ job.pc = "page"
    /\ LET idx  == Len(job.pages) + 1
           page == extract_page(job.pdf, extract_title_from_first_page(job.pdf),
                                job.env, idx)
       IN  IF idx > Len(job.pdf.pages)
           THEN job' = [job EXCEPT !.pc = "build"] /\ UNCHANGED collection
           ELSE IF ocr_page_raises(job.env, idx)
           THEN job' = [job EXCEPT !.pc = "raised"] /\ UNCHANGED collection
           ELSE /\ job' = [job EXCEPT !.pages = Append(job.pages, page)]
                /\ collection' = collection
                                   \o build_documents(<<page>>, job.pdf.tmp, job.env)
    /\ UNCHANGED <<shell, store_live, chain_live,
                   uploaded_documents, chat_history, resp>>

\* ingest.py 166-181: one turn of the loop over the pages; an exception of
\* _ocr_page leaves extract_pdf
extract_next_page ==
    /\ job.pc = "page"
    /\ LET idx == Len(job.pages) + 1
       IN  job' = IF idx > Len(job.pdf.pages)
                  THEN [job EXCEPT !.pc = "build"]
                  ELSE IF ocr_page_raises(job.env, idx)
                  THEN [job EXCEPT !.pc = "raised"]
                  ELSE [job EXCEPT !.pages = Append(job.pages,
                            extract_page(job.pdf, extract_title_from_first_page(job.pdf),
                                         job.env, idx))]
    /\ UNCHANGED <<shell, collection, store_live, chain_live,
                   uploaded_documents, chat_history, resp>>

\* ingest.py 258: build_documents
ingest_build ==
    /\ job.pc = "build"
    /\ job' = [job EXCEPT !.pc = "add",
                          !.docs = build_documents(job.pages, job.pdf.tmp, job.env)]
    /\ UNCHANGED <<shell, collection, store_live, chain_live,
                   uploaded_documents, chat_history, resp>>

\* ingest.py 259: store.add_documents(docs)
ingest_add ==
    /\ job.pc = "add"
    /\ IF job.env.fault = "add_documents"
       THEN /\ job' = [job EXCEPT !.pc = "raised"]
            /\ UNCHANGED collection
       ELSE /\ job' = [job EXCEPT !.pc = "persist"]
            /\ collection' = collection \o job.docs
    /\ UNCHANGED <<shell, store_live, chain_live,
                   uploaded_documents, chat_history, resp>>

\* ingest.py 260-262: store.persist(), then the count is returned
ingest_persist ==
    /\ job.pc = "persist"
    /\ job' = IF job.env.fault = "persist"
              THEN [job EXCEPT !.pc = "raised"]
              ELSE [job EXCEPT !.pc = "returned", !.count = Len(job.docs)]
    /\ UNCHANGED <<shell, collection, store_live, chain_live,
                   uploaded_documents, chat_history, resp>>

IngestNext ==
    \/ ingest_start
    \/ extract_open
    \/ extract_next_page
    \/ ingest_build
    \/ ingest_add
    \/ ingest_persist

IngestSpec == IngestInit /\ [][IngestNext]_vars

\* a run that has ended agrees with ingest_file taken as one step
IngestAgrees ==
    job.pc \in {"returned", "raised"} /\ job.exists =>
        LET whole == ingest_file(TRUE, <<>>, job.pdf, job.env)
        IN  /\ whole.ok = (job.pc = "returned")
            /\ whole.stored = collection
            /\ whole.ok => whole.count = job.count

Next ==
    \/ upload_pdf
    \/ ask_question
    \/ get_status
    \/ clear_documents
    \/ clear_chat_history_endpoint
    \/ app_upload
    \/ app_chat
    \/ app_clear_chat

Spec == Init /\ [][Next]_vars

\* the shape of the state; the stored passages hold no digit
TypeOK ==
    /\ shell \in {"backend", "app"}
    /\ store_live \in BOOLEAN
    /\ chain_live \in BOOLEAN
    /\ Len(collection) <= MaxDocs
    /\ Len(uploaded_documents) <= MaxUploads
    /\ Len(chat_history) <= MaxHistory
    /\ resp.status \in {200, 400, 500}

NoDigitStored ==
    \A d \in 1..Len(collection) : ~HasDigit(collection[d].page_content)

(***************************************************************************)
(* One retrieval (src/vector_store.py)                                     *)
(*                                                                         *)
(* as_retriever hands the retriever search_type "mmr" and the keywords k,  *)
(* fetch_k, lambda_mult and score_threshold.  The retriever calls          *)
(* max_marginal_relevance_search(query, k, fetch_k, lambda_mult,           *)
(* score_threshold): the fetch_k passages nearest to the query are the     *)
(* candidates, k of them are selected by maximal marginal relevance and    *)
(* returned in the order of the candidates.  The search takes              *)
(* score_threshold among its further keywords and does not read it.        *)
(* Relevance and similarity are in tenths: job.relevance[p] is the         *)
(* relevance of passage p to the query, job.similar[{p, q}] the similarity *)
(* of the passages p and q.                                                *)
(***************************************************************************)

\* "fetch_k": 20, the size of the candidate pool
fetch_k == 20

\* "lambda_mult": 0.7, in tenths
lambda_mult == 7

\* settings.score_threshold (SCORE_THRESHOLD, 0.4 by default), in tenths
score_threshold == 4

\* the relevances and the similarities the embeddings of the model give
Relevances == {2, 5, 8}

Similarities == {1, 9}

\* the passages of an index of n passages
IndexOf(n) == [p \in 1..n |-> Document(<<112, 96 + p>>, "/tmp/tmp_report.pdf", p, "text")]

\* the positions of the passages, nearest to the query first, at most
\* fetch_k of them; equal relevances in the order of storage
RECURSIVE Nearest(_, _)
Nearest(relevance, rest) ==
    IF rest = {} THEN <<>>
    ELSE LET best == Min({p \in rest : \A q \in rest : relevance[p] >= relevance[q]})
         IN  <<best>> \o Nearest(relevance, rest \ {best})

Candidates(relevance) ==
    LET nearest == Nearest(relevance, DOMAIN relevance)
    IN  SubSeq(nearest, 1, Min({fetch_k, Len(nearest)}))

\* the score of candidate c beside the passages selected: lambda_mult times
\* its relevance less (1 - lambda_mult) times its greatest similarity to one
\* of them; the first is selected by relevance alone
MmrScore(c, relevance, similar, selected) ==
    IF selected = {} THEN 10 * relevance[c]
    ELSE lambda_mult * relevance[c]
           - (10 - lambda_mult) * Max({similar[{c, q}] : q \in selected})

\* maximal_marginal_relevance: passages are selected one by one, each time
\* the first candidate of the greatest score, until k are selected
RECURSIVE MmrSelect(_, _, _, _, _)
MmrSelect(candidates, relevance, similar, k, selected) ==
    LET rest == {i \in 1..Len(candidates) : candidates[i] \notin selected}
        best == Min({i \in rest : \A j \in rest :
                        MmrScore(candidates[i], relevance, similar, selected)
                            >= MmrScore(candidates[j], relevance, similar, selected)})
    IN  IF Cardinality(selected) >= Min({k, Len(candidates)}) THEN selected
        ELSE MmrSelect(candidates, relevance, similar, k,
                       selected \cup {candidates[best]})

\* max_marginal_relevance_search: the selected candidates, in the order of
\* the candidates; threshold is the keyword score_threshold
max_marginal_relevance_search(relevance, similar, k, threshold) ==
    LET candidates == Candidates(relevance)
        selected   == MmrSelect(candidates, relevance, similar, k, {})
    IN  SelectSeq(candidates, LAMBDA p : p \in selected)

\* an index of one to three passages and the embeddings of a query
RetrieveInit ==
    /\ shell = "backend"
    /\ store_live = TRUE
    /\ chain_live = TRUE
    /\ uploaded_documents = <<>>
    /\ chat_history = <<>>
    /\ resp = [op |-> "startup", status |-> 200]
    /\ \E n \in 1..3 :
        /\ collection = IndexOf(n)
        /\ \E relevance \in [1..n -> Relevances],
              similar \in [{pq \in SUBSET (1..n) : Cardinality(pq) = 2} -> Similarities] :
            job = [pc |-> "query", relevance |-> relevance, similar |-> similar,
                   positions |-> <<>>, retrieved |-> <<>>]

\* vector_store.py 37-50: the retriever built by as_retriever is invoked
retrieve ==
    /\ job.pc = "query"
    /\ \E positions \in {max_marginal_relevance_search(
                              job.relevance, job.similar, top_k, score_threshold)} :
           job' = [job EXCEPT
                     !.pc = "retrieved",
                     !.positions = positions,
                     !.retrieved = [i \in 1..Len(positions) |-> collection[positions[i]]]]
    /\ UNCHANGED <<shell, collection, store_live, chain_live,
                   uploaded_documents, chat_history, resp>>

RetrieveNext == retrieve

RetrieveSpec == RetrieveInit /\ [][RetrieveNext]_vars

(***************************************************************************)
(* clean_answer on its own (src/qa.py)                                     *)
(*                                                                         *)
(* job.input is the text clean_answer is called with, job.once what it     *)
(* returns, job.twice what it returns when called with that.               *)
(***************************************************************************)

\* the texts that no step before the segmentation into sentences changes
SentenceInputs ==
    {
     \* "Yes. Costs fell sharply too."
     <<89, 101, 115, 46, 32, 67, 111, 115, 116, 115, 32, 102, 101, 108, 108, 32, 115, 104, 97, 114, 112, 108, 121, 32, 116, 111, 111, 46>>,
     \* "We saw the red fox today. We saw the red fox again. We saw the red fox twice more."
     <<87, 101, 32, 115, 97, 119, 32, 116, 104, 101, 32, 114, 101, 100, 32, 102, 111, 120, 32, 116, 111, 100, 97, 121, 46, 32, 87, 101, 32, 115, 97, 119, 32, 116, 104, 101, 32, 114, 101, 100, 32, 102, 111, 120, 32, 97, 103, 97, 105, 110, 46, 32, 87, 101, 32, 115, 97, 119, 32, 116, 104, 101, 32, 114, 101, 100, 32, 102, 111, 120, 32, 116, 119, 105, 99, 101, 32, 109, 111, 114, 101, 46>>,
     \* "Hi. abc"
     <<72, 105, 46, 32, 97, 98, 99>>,
     \* "Costs fell sharply too. and so"
     <<67, 111, 115, 116, 115, 32, 102, 101, 108, 108, 32, 115, 104, 97, 114, 112, 108, 121, 32, 116, 111, 111, 46, 32, 97, 110, 100, 32, 115, 111>>,
     \* "Costs fell sharply too. and then some"
     <<67, 111, 115, 116, 115, 32, 102, 101, 108, 108, 32, 115, 104, 97, 114, 112, 108, 121, 32, 116, 111, 111, 46, 32, 97, 110, 100, 32, 116, 104, 101, 110, 32, 115, 111, 109, 101>>,
     \* "Hi. Yo. Be. Go. No. a"
     <<72, 105, 46, 32, 89, 111, 46, 32, 66, 101, 46, 32, 71, 111, 46, 32, 78, 111, 46, 32, 97>>,
     \* "Costs fell!"
     <<67, 111, 115, 116, 115, 32, 102, 101, 108, 108, 33>>,
     \* "Costs fell sharply too. Costs fell  sharply TOO. Revenue grew."
     <<67, 111, 115, 116, 115, 32, 102, 101, 108, 108, 32, 115, 104, 97, 114, 112, 108, 121, 32, 116, 111, 111, 46, 32, 67, 111, 115, 116, 115, 32, 102, 101, 108, 108, 32, 32, 115, 104, 97, 114, 112, 108, 121, 32, 84, 79, 79, 46, 32, 82, 101, 118, 101, 110, 117, 101, 32, 103, 114, 101, 119, 46>>
    }

\* the texts clean_answer is called with: up to two openings, a body and an
\* ending, or one of SentenceInputs
CleanInputs ==
    LET openings == {<<>>,
                     <<78, 111, 116, 101, 58, 32>>,  \* "Note: "
                     \* "The answer is: "
                     <<84, 104, 101, 32, 97, 110, 115, 119, 101, 114, 32, 105, 115, 58, 32>>,
                     <<32, 32, 32>>}                 \* three spaces
        bodies   == {<<>>,
                     <<72, 105>>,                    \* "Hi"
                     \* "Costs fell sharply too."
                     <<67, 111, 115, 116, 115, 32, 102, 101, 108, 108, 32, 115, 104, 97, 114, 112, 108, 121, 32, 116, 111, 111, 46>>,
                     \* "Revenue grew strongly"
                     <<82, 101, 118, 101, 110, 117, 101, 32, 103, 114, 101, 119, 32, 115, 116, 114, 111, 110, 103, 108, 121>>}
        endings  == {<<>>,
                     <<32>>,                         \* " "
                     <<10, 65, 41, 32, 121, 101, 115>>,  \* "\nA) yes"
                     \* " costs fell  sharply too."
                     <<32, 99, 111, 115, 116, 115, 32, 102, 101, 108, 108, 32, 32, 115, 104, 97, 114, 112, 108, 121, 32, 116, 111, 111, 46>>}
    IN  {o1 \o o2 \o b \o e : o1 \in openings, o2 \in openings,
                               b \in bodies, e \in endings}
            \cup SentenceInputs

CleanInit ==
    /\ shell = "backend"
    /\ collection = <<>>
    /\ store_live = TRUE
    /\ chain_live = TRUE
    /\ uploaded_documents = <<>>
    /\ chat_history = <<>>
    /\ resp = [op |-> "startup", status |-> 200]
    /\ \E input \in CleanInputs :
        job = [pc |-> "input", input |-> input, once |-> <<>>, twice |-> <<>>]

\* qa.py 77-263: clean_answer(input)
clean_once ==
    /\ job.pc = "input"
    /\ \E result \in {clean_answer(job.input)} :
           job' = [job EXCEPT !.pc = "once", !.once = result]
    /\ UNCHANGED <<shell, collection, store_live, chain_live,
                   uploaded_documents, chat_history, resp>>

\* qa.py 77-263: clean_answer of what clean_answer returned
clean_again ==
    /\ job.pc = "once"
    /\ \E result \in {clean_answer(job.once)} :
           job' = [job EXCEPT !.pc = "twice", !.twice = result]
    /\ UNCHANGED <<shell, collection, store_live, chain_live,
                   uploaded_documents, chat_history, resp>>

CleanNext ==
    \/ clean_once
    \/ clean_again

CleanSpec == CleanInit /\ [][CleanNext]_vars

(***************************************************************************)
(* The claims                                                              *)
(***************************************************************************)

\* a character of a word: a letter, a digit, the underscore, Devanagari
WordChar(c) ==
    c \in (48..57) \cup (65..90) \cup (97..122) \cup {95} \cup (2304..2431)

\* the lowercase word set of a text: its maximal runs of word characters
Tokens(s) ==
    {LowerStr(SubSeq(s, p[1], p[2])) :
        p \in {q \in (1..Len(s)) \X (1..Len(s)) :
                  /\ q[1] <= q[2]
                  /\ \A k \in q[1]..q[2] : WordChar(s[k])
                  /\ q[1] = 1 \/ ~WordChar(s[q[1] - 1])
                  /\ q[2] = Len(s) \/ ~WordChar(s[q[2] + 1])}}

\* the grounding policy of the specification: the answer shares fewer than 2
\* distinct tokens with the concatenation of the passages
Ungrounded(answer, passages) ==
    Cardinality(Tokens(answer) \cap
                Tokens(join(<<32>>, [d \in 1..Len(passages) |-> passages[d].page_content]))) < 2

\* the localized "not found in context" message for a question
NotFoundMessage(question) ==
    IF is_hindi(question) THEN NOT_FOUND_HI ELSE NOT_FOUND_EN

\* "No response generated.", which the messages of both shells hold
NO_RESPONSE == <<78, 111, 32, 114, 101, 115, 112, 111, 110, 115, 101, 32, 103, 101, 110, 101, 114, 97, 116, 101, 100, 46>>

\* the last request was a question on an index that holds passages, and the
\* generator returned
Answered ==
    /\ resp.op = "ask"
    /\ collection # <<>>
    /\ resp.generator = "returned"

\* C1: on a non-empty index, a non-empty generator text that shares fewer
\* than 2 lowercase tokens with the retrieved passages is answered with the
\* localized not-found message, never with the raw or the cleaned text
C1_UngroundedIsNotFound ==
    (Answered /\ strip(resp.raw) # <<>> /\ Ungrounded(resp.raw, resp.retrieved))
        => /\ resp.status = 200
           /\ resp.answer = NotFoundMessage(resp.question)

\* C2: a question asked while the index holds no passage is answered with
\* the no-documents message of the shell and no source, without an error,
\* and neither the retriever nor the generator has been invoked
C2_EmptyIndexNoDocuments ==
    (resp.op = "ask" /\ collection = <<>>)
        => /\ resp.status = 200
           /\ resp.answer = (IF shell = "backend" THEN NO_DOCUMENTS_BACKEND
                             ELSE NO_DOCUMENTS_APP)
           /\ resp.source_documents = <<>>
           /\ resp.retriever = "none"
           /\ resp.generator = "none"

\* C2, its case: a file was uploaded, the index was emptied again, and the
\* question asked then got the no-documents message
C2_Witness ==
    /\ resp.op = "ask"
    /\ collection = <<>>
    /\ uploaded_documents # <<>>
    /\ resp.answer = NO_DOCUMENTS_BACKEND
    /\ resp.retriever = "none"

\* the passages of a collection, as a set
Passages(stored) == {stored[d] : d \in 1..Len(stored)}

\* C3: an upload that ends in an error leaves the set of stored passages as
\* it was before the request, whatever the clear-existing option
C3_FailedUploadKeepsIndex ==
    [][(resp'.op = "upload" /\ resp'.status = 500)
          => Passages(collection') = Passages(collection)]_vars

\* C4: when the generator raises, the query ends with a normal response
\* whose answer is the no-response text without the raw error, and the
\* response carries the retrieved sources
C4_GeneratorFailureIsSafe ==
    (resp.op = "ask" /\ collection # <<>> /\ resp.generator = "raised")
        => /\ resp.status = 200
           /\ ContainsExact(resp.answer, NO_RESPONSE)
           /\ ~ContainsExact(resp.answer, GENERATOR_ERROR)
           /\ resp.source_documents = serialize(resp.retrieved)

\* C5: when the generator returns empty or whitespace-only text, the answer
\* is the no-response message, for every question and every retrieved set,
\* and the response carries the retrieved sources
C5_EmptyGenerationIsNoResponse ==
    (Answered /\ strip(resp.raw) = <<>>)
        => /\ resp.status = 200
           /\ ContainsExact(resp.answer, NO_RESPONSE)
           /\ resp.source_documents = serialize(resp.retrieved)

\* C6: when the raw answer is the NOT_FOUND sentinel, the final answer is
\* exactly the Hindi not-found message for a question with a Devanagari code
\* point and exactly the English one otherwise
C6_SentinelIsLocalized ==
    (Answered /\ strip(resp.raw) = NOT_FOUND)
        => /\ resp.status = 200
           /\ resp.answer = NotFoundMessage(resp.question)

\* C7: every text passage build_documents emits carries the 1-based position
\* of the page its chunk was taken from, and its chunk is text of that one
\* page
C7_TextPassageCarriesItsPage ==
    \A d \in 1..Len(job.docs) :
        job.docs[d].type = "text"
            => /\ job.docs[d].page \in 1..Len(job.pages)
               /\ ContainsExact(PageText(job.pages[job.docs[d].page]),
                                job.docs[d].page_content)

\* C8: after clear() has returned, count() is 0 and a search returns nothing
\* without raising, whatever was stored and however the deletion of the
\* collection went
C8_ClearedIndexIsEmpty ==
    (resp.op = "clear" /\ resp.status = 200)
        => /\ get_document_count(store_live, collection, TRUE) = 0
           /\ chain_live
           /\ \A r \in Retrievals(collection) : r = <<>>

\* C9: a query during which the index cannot be read fails with an error;
\* it is never answered as if the index were empty
C9_UnreadableIndexFails ==
    (resp.op = "ask" /\ collection # <<>> /\ ~resp.readable)
        => /\ resp.status = 500
           /\ resp.retriever # "none"

\* the steps of _ocr_page that can fail
OcrFaults == {"load_ocr", "get_pixmap", "preprocess", "cvtColor", "ocr_en", "ocr_hi"}

\* C10: when OCR of a page fails at any of its steps, extract_pdf still
\* returns one entry for every page, in document order, with empty OCR text
\* for the failing page
C10_OcrFailureKeepsPages ==
    (job.exists /\ job.env.fault \in OcrFaults /\ job.pc \notin {"start", "open", "page"})
        => /\ job.pc # "raised"
           /\ Len(job.pages) = Len(job.pdf.pages)
           /\ \A i \in 1..Len(job.pages) :
                  endswith(job.pages[i].text, job.pdf.pages[i].text)
           /\ job.pages[job.env.page].ocr_text = <<>>

\* build_documents has returned in the run
Built == job.pc \in {"add", "persist", "returned"}

\* the text passages among docs, in order
TextPassages(docs) == SelectSeq(docs, LAMBDA d : d.type = "text")

\* the page text of the priority order; native is the text layer as it is
\* measured and tested for emptiness, page.text is what is written
PriorityText(page, native) ==
    IF Len(native) < 50 /\ page.ocr_text # <<>> THEN page.ocr_text
    ELSE IF native # <<>> /\ page.ocr_text # <<>>
    THEN page.text \o <<10, 10>> \o page.ocr_text
    ELSE IF native # <<>> THEN page.text
    ELSE page.ocr_text

\* the text passages of pages whose page texts are texts: the texts that are
\* not blank, chunked
PassagesOfTexts(texts, source) ==
    TextDocuments(SelectSeq(texts, LAMBDA t : strip(t) # <<>>), 1, source)

\* C11 as stated: the page text of every page follows the priority order,
\* "shorter than 50 characters" and "non-empty" said of the native text as
\* extracted, and the text passages emitted are the chunks of these texts
C11_PageTextPriority_AsExtracted ==
    Built =>
        /\ \A i \in 1..Len(job.pages) :
               PageText(job.pages[i]) = PriorityText(job.pages[i], job.pages[i].text)
        /\ TextPassages(job.docs) =
               PassagesOfTexts([i \in 1..Len(job.pages) |->
                                   PriorityText(job.pages[i], job.pages[i].text)],
                               job.pdf.tmp)

\* C11: the page text of every page follows the priority order, with the
\* native text measured and tested for emptiness after its surrounding
\* whitespace is stripped; a page whose text is blank contributes no text
\* passage
C11_PageTextPriority ==
    Built =>
        /\ \A i \in 1..Len(job.pages) :
               PageText(job.pages[i]) = PriorityText(job.pages[i], strip(job.pages[i].text))
        /\ TextPassages(job.docs) =
               PassagesOfTexts([i \in 1..Len(job.pages) |->
                                   PriorityText(job.pages[i], strip(job.pages[i].text))],
                               job.pdf.tmp)

\* C11, its case: the documents of mixed.pdf are built; page 1 gives the
\* native text, a blank line and the OCR text, page 2 (50 characters as
\* extracted, 48 stripped) the OCR text alone, page 3 nothing, page 4 its
\* native text
C11_Witness ==
    /\ Built
    /\ job.pdf = PdfMixed
    /\ PageText(job.pages[1]) = job.pages[1].text \o <<10, 10>> \o job.pages[1].ocr_text
    /\ Len(job.pages[2].text) >= 50
    /\ PageText(job.pages[2]) = job.pages[2].ocr_text
    /\ PageText(job.pages[3]) = <<>>
    /\ PageText(job.pages[4]) = job.pages[4].text
    /\ Len(TextPassages(job.docs)) > 3

\* the rows of the tables from table t on, in order
RECURSIVE RowsOf(_, _)
RowsOf(tables, t) ==
    IF t > Len(tables) THEN <<>> ELSE tables[t] \o RowsOf(tables, t + 1)

\* the rows of the tables found on page idx in the run
RowsOnPage(idx) ==
    IF job.env.fault = "find_tables" /\ job.env.page = idx THEN <<>>
    ELSE RowsOf(job.pdf.pages[idx].tables, 1)

\* the passages of docs that are no text passages and carry page idx, in order
TablePassages(docs, idx) ==
    SelectSeq(docs, LAMBDA d : d.type # "text" /\ d.page = idx)

\* C12: for every table extracted on a page, build_documents emits exactly
\* one passage per row, of the table-row kind, tagged with the 1-based number
\* of the page and holding the cells of the row in order joined by " | "
\* (an empty cell as pandas writes it), whole
C12_OnePassagePerTableRow ==
    Built =>
        \A idx \in 1..Len(job.pages) :
            LET rows     == RowsOnPage(idx)
                passages == TablePassages(job.docs, idx)
            IN  /\ Len(passages) = Len(rows)
                /\ \A r \in 1..Len(passages) :
                       /\ passages[r].type = "table_row"
                       /\ passages[r].page_content =
                              join(<<32, 124, 32>>,
                                   [c \in 1..Len(rows[r]) |-> CellStr(rows[r][c])])

\* the two passage types of the schema, as the code spells them
PassageTypes == {"text", "table_row"}

\* C13: every passage ingestion produces, and every source entry a query
\* returns for such passages, has a type that is one of the two values text
\* and table row
C13_TypeIsTextOrTableRow ==
    Built =>
        /\ \A d \in 1..Len(job.docs) : job.docs[d].type \in PassageTypes
        /\ \A d \in 1..Len(job.docs) : serialize(job.docs)[d].type \in PassageTypes

\* C14: no passage ingestion hands to the index has text that is empty or
\* whitespace-only, be it a text chunk, a table row or a whole table
C14_NoBlankPassage ==
    /\ Built => \A d \in 1..Len(job.docs) : strip(job.docs[d].page_content) # <<>>
    /\ \A d \in 1..Len(collection) : strip(collection[d].page_content) # <<>>

\* C14, its case: a run has added its passages to the index, a text chunk
\* and a whole table among them
C14_Witness ==
    /\ job.pc = "returned"
    /\ collection = job.docs
    /\ \E d \in 1..Len(collection) : collection[d].type = "text"
    /\ \E d \in 1..Len(collection) : collection[d].type = "table"

\* C15: an upload that reports n chunks leaves the m passages the index
\* held when ingest_file was called stored unchanged and in place, followed
\* by n new ones, and the document count is m + n; the index held what it
\* held before the request, or nothing where the request asked to clear it
\* first and the collection was deleted
C15_AddKeepsStored ==
    [][(resp'.op = "upload" /\ resp'.status = 200)
          => LET n == resp'.chunk_count
                 m == Len(collection') - n
             IN  /\ m >= 0
                 /\ \/ SubSeq(collection', 1, m) = collection
                    \/ resp'.clear_existing /\ m = 0
                 /\ get_document_count(store_live', collection', TRUE) = m + n]_vars

\* C15, its case: an upload has reported its chunks, and the index holds
\* passages of an earlier upload before them
C15_Witness ==
    /\ resp.op = "upload"
    /\ resp.status = 200
    /\ ~resp.clear_existing
    /\ resp.chunk_count > 0
    /\ Len(collection) > resp.chunk_count

\* C16: every passage a retrieval under the configured policy returns has
\* relevance to the query of at least score_threshold
C16_RetrievedAreRelevant ==
    job.pc = "retrieved" =>
        /\ Len(job.retrieved) = Len(job.positions)
        /\ \A i \in 1..Len(job.positions) :
               job.relevance[job.positions[i]] >= score_threshold

\* C17: clean_answer(clean_answer(x)) equals clean_answer(x) for every text x
C17_CleanIsIdempotent ==
    job.pc = "twice" => job.twice = job.once

\* C18: for every text that is not empty, clean_answer returns a text that
\* is not empty
C18_CleanKeepsNonEmpty ==
    (job.pc \in {"once", "twice"} /\ job.input # <<>>) => job.once # <<>>

\* C19: clean_answer returns its input unchanged when the input is empty and
\* when it consists of whitespace only
C19_CleanKeepsBlank ==
    (job.pc \in {"once", "twice"} /\ strip(job.input) = <<>>) => job.once = job.input

\* what can make extract_pdf raise
ExtractionFaults == {"open", "load_ocr", "get_pixmap", "preprocess", "cvtColor"}

\* C20: ingest_file writes the index only after every page is extracted and
\* the passages are assembled, and then all passages at once; a run on a
\* missing file raises at once, with nothing extracted and nothing stored;
\* a run ended by a failure of extraction has stored no passage
C20_IndexWrittenAfterAssembly ==
    /\ [][collection' # collection
             => /\ job.pc = "add"
                /\ job.exists
                /\ Len(job.pages) = Len(job.pdf.pages)
                /\ job.docs = build_documents(job.pages, job.pdf.tmp, job.env)
                /\ collection' = collection \o job.docs]_vars
    /\ []((~job.exists /\ job.pc # "start")
             => (job.pc = "raised" /\ job.pages = <<>> /\ collection = <<>>))
    /\ []((job.pc = "raised" /\ job.exists /\ job.env.fault \in ExtractionFaults)
             => collection = <<>>)

\* C20, its case: extraction has failed on a page after the first, pages of
\* the document are extracted already, and the index holds nothing
C20_Witness ==
    /\ job.pc = "raised"
    /\ job.exists
    /\ job.env.fault \in ExtractionFaults
    /\ job.pages # <<>>
    /\ Len(job.pages) < Len(job.pdf.pages)
    /\ collection = <<>>

(***************************************************************************)
(* The event loop of the backend (backend/main.py, uvicorn.run at 448-451) *)
(*                                                                         *)
(* Every handler is an async def run by the one event loop of the one      *)
(* process: a handler that has the loop keeps it until it awaits or        *)
(* returns.  Here the handlers of /api/upload, /api/ask and /api/clear are *)
(* split at their calls on the store, and job holds the loop and, for each *)
(* of the three requests in flight, its position and locals.  No call      *)
(* raises in this specification.                                           *)
(***************************************************************************)

Tasks == {"upload", "ask", "clear"}

\* the positions at which a handler awaits: file.read() at main.py 248, and
\* nowhere else
Awaits_between_clear_and_ingest(task, pc) ==
    task = "upload" /\ pc \in {"reading", "cleared"}

Awaits(task, pc) == task = "upload" /\ pc = "reading"

\* who has the loop once a task has come to pc
LoopAfter(task, pc) ==
    IF pc = "done" \/ Awaits(task, pc) THEN "free" ELSE task

\* a new request is taken up when the loop is free
MayStart(task) == job.loop = "free" /\ job[task].pc \in {"none", "done"}

\* a handler at pc goes on when it has the loop, or when the loop is free
\* and it had given it up
MayRun(task, pc) ==
    /\ job[task].pc = pc
    /\ job.loop = task \/ (job.loop = "free" /\ Awaits(task, pc))

NoFault == [fault |-> "none", page |-> 1]

\* the length to which the chat history grows in this specification: two
\* questions and their answers
MaxServedHistory == 4

ServeInit ==
    /\ shell = "backend"
    /\ collection = <<>>
    /\ store_live = TRUE
    /\ chain_live = TRUE
    /\ uploaded_documents = <<>>
    /\ chat_history = <<>>
    /\ resp = [op |-> "startup", status |-> 200]
    /\ job = [loop |-> "free", upload |-> [pc |-> "none"],
              ask |-> [pc |-> "none"], clear |-> [pc |-> "none"]]

\* main.py 236-248: the check of the name, the temporary file, await file.read()
upload_read ==
    /\ MayStart("upload")
    /\ \E file \in Files, clear_existing \in BOOLEAN :
        IF ~endswith(file.name, DOT_PDF)
        THEN /\ job' = [job EXCEPT !.upload = [pc |-> "done"],
                                   !.loop = LoopAfter("upload", "done")]
             /\ resp' = [op |-> "upload", status |-> 400, temp_file_left |-> FALSE]
        ELSE /\ Len(collection) + Len(Extracted[file][NoFault].docs) <= MaxDocs
             /\ clear_existing \/ Len(uploaded_documents) < MaxUploads
             /\ job' = [job EXCEPT !.upload = [pc |-> "reading", file |-> file,
                                               clear_existing |-> clear_existing],
                                   !.loop = LoopAfter("upload", "reading")]
             /\ UNCHANGED resp
    /\ UNCHANGED <<shell, collection, store_live, chain_live,
                   uploaded_documents, chat_history>>

\* main.py 249-259: the file is written, then the clearing branch
upload_clear ==
    /\ MayRun("upload", "reading")
    /\ \E c \in {clear_branch(store_live, chain_live, collection,
                              job.upload.clear_existing, "none")} :
        /\ collection' = c.stored
        /\ store_live' = c.store_live
        /\ chain_live' = c.chain_live
        /\ uploaded_documents' = IF c.reset THEN <<>> ELSE uploaded_documents
    /\ job' = [job EXCEPT !.upload.pc = "cleared",
                          !.loop = LoopAfter("upload", "cleared")]
    /\ UNCHANGED <<shell, chat_history, resp>>

\* main.py 265: ingest_file
upload_ingest ==
    /\ MayRun("upload", "cleared")
    /\ \E ing \in {ingest_file(store_live, collection, job.upload.file, NoFault)} :
        /\ collection' = ing.stored
        /\ job' = [job EXCEPT !.upload = [pc |-> "ingested",
                                          file |-> job.upload.file,
                                          clear_existing |-> job.upload.clear_existing,
                                          chunk_count |-> ing.count],
                              !.loop = LoopAfter("upload", "ingested")]
    /\ UNCHANGED <<shell, store_live, chain_live, uploaded_documents,
                   chat_history, resp>>

\* main.py 268-289: the chain is built again, the name recorded, the
\* temporary file removed
upload_respond ==
    /\ MayRun("upload", "ingested")
    /\ chain_live' = build_chain(store_live, FALSE).chain_live
    /\ uploaded_documents' = Append(uploaded_documents, job.upload.file.name)
    /\ resp' = [op |-> "upload", status |-> 200,
                clear_existing |-> job.upload.clear_existing,
                chunk_count |-> job.upload.chunk_count,
                document_count |-> get_document_count(store_live, collection, TRUE),
                document_name |-> job.upload.file.name,
                temp_file_left |-> FALSE]
    /\ job' = [job EXCEPT !.upload = [pc |-> "done"],
                          !.loop = LoopAfter("upload", "done")]
    /\ UNCHANGED <<shell, collection, store_live, chat_history>>

\* main.py 305: the count that decides whether the chain is asked
ask_count ==
    /\ MayStart("ask")
    /\ Len(chat_history) + 2 <= MaxServedHistory
    /\ \E question \in Questions :
        job' = [job EXCEPT !.ask = [pc |-> "counted", question |-> question,
                                    count |-> get_document_count(store_live, collection, TRUE),
                                    index |-> collection],
                           !.loop = LoopAfter("ask", "counted")]
    /\ UNCHANGED <<shell, collection, store_live, chain_live,
                   uploaded_documents, chat_history, resp>>

\* the question and its answer put in front of the messages loaded
append_messages_in_front(messages, question, answer, source_docs_serialized) ==
    <<[role |-> "user", content |-> question],
      [role |-> "assistant", content |-> answer,
       source_documents |-> source_docs_serialized]>> \o messages

\* main.py 387-397: the two messages.append of ask_question on the messages
\* load_chat_history returned
append_messages(messages, question, answer, source_docs_serialized) ==
    messages \o <<[role |-> "user", content |-> question],
                  [role |-> "assistant", content |-> answer,
                   source_documents |-> source_docs_serialized]>>

\* main.py 306-407: the no-documents answer, or the chain is invoked, its
\* answer cleaned and saved
ask_invoke ==
    /\ MayRun("ask", "counted")
    /\ LET question == job.ask.question
       IN  IF job.ask.count = 0
           THEN /\ resp' = [op |-> "ask", status |-> 200, question |-> question,
                            retriever |-> "none", retrieved |-> <<>>,
                            answer |-> NO_DOCUMENTS_BACKEND,
                            source_documents |-> <<>>]
                /\ UNCHANGED chat_history
           ELSE \E o \in ChainOutcomes(collection, chain_live) :
                IF o.generator # "returned"
                THEN /\ resp' = [op |-> "ask", status |-> 500, question |-> question,
                                 retriever |-> o.retriever, retrieved |-> o.retrieved,
                                 detail |-> FAILED_TO_GENERATE \o
                                     (IF o.retriever = "raised" THEN RETRIEVER_ERROR
                                      ELSE GENERATOR_ERROR)]
                     /\ UNCHANGED chat_history
                ELSE \E answer \in {backend_answer(question, o.raw, o.retrieved)},
                        source_docs_serialized \in {serialize(o.retrieved)} :
                         /\ chat_history' = append_messages(chat_history, question,
                                                   answer, source_docs_serialized)
                         /\ resp' = [op |-> "ask", status |-> 200, question |-> question,
                                     retriever |-> o.retriever, retrieved |-> o.retrieved,
                                     answer |-> answer,
                                     source_documents |-> source_docs_serialized]
    /\ job' = [job EXCEPT !.ask = [pc |-> "done", count |-> job.ask.count,
                                   index |-> job.ask.index, asked |-> collection],
                          !.loop = LoopAfter("ask", "done")]
    /\ UNCHANGED <<shell, collection, store_live, chain_live, uploaded_documents>>

\* main.py 414-417: vector_store.clear()
clear_store ==
    /\ MayStart("clear")
    /\ \E c \in {clear(store_live, chain_live, collection, "none")} :
        /\ collection' = c.stored
        /\ store_live' = c.store_live
        /\ chain_live' = c.chain_live
    /\ job' = [job EXCEPT !.clear = [pc |-> "cleared"],
                          !.loop = LoopAfter("clear", "cleared")]
    /\ UNCHANGED <<shell, uploaded_documents, chat_history, resp>>

\* main.py 418-423: the chain is built again and the chat history emptied
clear_respond ==
    /\ MayRun("clear", "cleared")
    /\ chain_live' = build_chain(store_live, FALSE).chain_live
    /\ chat_history' = <<>>
    /\ resp' = [op |-> "clear", status |-> 200]
    /\ job' = [job EXCEPT !.clear = [pc |-> "done"],
                          !.loop = LoopAfter("clear", "done")]
    /\ UNCHANGED <<shell, collection, store_live, uploaded_documents>>

\* main.py 438-445, POST /api/chat-history/clear: it awaits nothing and is one
\* step of the loop
serve_clear_chat_history ==
    /\ job.loop = "free"
    /\ clear_chat_history_endpoint

\* main.py 214-228, GET /api/status, one step of the loop
serve_status ==
    /\ job.loop = "free"
    /\ get_status

ServeNext ==
    \/ upload_read
    \/ upload_clear
    \/ upload_ingest
    \/ upload_respond
    \/ ask_count
    \/ ask_invoke
    \/ clear_store
    \/ clear_respond
    \/ serve_clear_chat_history
    \/ serve_status

ServeSpec == ServeInit /\ [][ServeNext]_vars

\* the index is being written: an upload is between its clearing branch and
\* the end of its ingestion, or a clear between its deletion and its return
IndexInProgress ==
    job.upload.pc \in {"cleared", "ingested"} \/ job.clear.pc = "cleared"

\* C21: requests access the vector index one at a time: while a question is
\* being answered (its count taken, its chain not yet returned) no upload is
\* between its clearing branch and the end of its ingestion and no clear is
\* in progress, and the index the chain is asked on is the index the count
\* was taken on
C21_IndexAccessedOneAtATime ==
    /\ job.ask.pc = "counted" => ~IndexInProgress /\ job.ask.index = collection
    /\ job.ask.pc = "done" => job.ask.asked = job.ask.index
    /\ IndexInProgress => job.loop \in {"upload", "clear"}

\* a question is in flight while an upload has read its file and not yet
\* cleared or ingested
C21_Witness ==
    /\ job.ask.pc = "counted"
    /\ job.upload.pc = "reading"
    /\ job.upload.clear_existing
    /\ collection # <<>>

\* C22: whenever a question is served against a non-empty index (the chain
\* was asked), the retriever of the chain reads the collection the store
\* holds: both handles are live
C22_ChainReadsTheStoredCollection ==
    (resp.op = "ask" /\ resp.retriever # "none" /\ collection # <<>>)
        => (store_live /\ chain_live)

\* C23: for every page extracted, the native text of its PageExtraction is
\* exactly the native text layer of the page, the empty string when the page
\* has none
C23_NativeTextIsTheTextLayer ==
    \A i \in 1..Len(job.pages) : job.pages[i].text = job.pdf.pages[i].text

\* clean_answer has returned in the run
Cleaned_once == job.pc # "input"

\* the sentences from position k on that are no duplicate (equal after
\* lowercasing and whitespace collapsing) of an earlier one
RECURSIVE FirstOccurrences(_, _, _)
FirstOccurrences(sentences, k, seen) ==
    IF k > Len(sentences) THEN <<>>
    ELSE IF Normalized(sentences[k]) \in seen
    THEN FirstOccurrences(sentences, k + 1, seen)
    ELSE <<sentences[k]>>
           \o FirstOccurrences(sentences, k + 1, seen \cup {Normalized(sentences[k])})

\* the text ends with a terminator
Terminated(text) == text # <<>> /\ text[Len(text)] \in Terminators

\* C24: the sentences of what clean_answer returns are the sentences of the
\* text without their later duplicates, in first-occurrence order, and no
\* other sentence is dropped; stated for the texts that end a sentence and
\* are too short for the removal of repeated phrases
C24_OnlyDuplicatesAreDropped ==
    (/\ Cleaned_once
     /\ job.input \in SentenceInputs
     /\ Terminated(job.input)
     /\ Len(split(job.input)) <= 15)
        => SentencesFrom(job.once, 1)
               = FirstOccurrences(SentencesFrom(job.input, 1), 1, {})

\* the 4-word phrases that occur more than twice among the words of text
RepeatedPhrases(text) ==
    LET words == split(text)
        starts == 1..(Len(words) - 3)
    IN  {Phrase(words, i) : i \in {j \in starts :
            Cardinality({k \in starts : Phrase(words, k) = Phrase(words, j)}) > 2}}

\* C25: a 4-word phrase that occurs more than twice in the text occurs
\* exactly once in what clean_answer returns, and every word of the text
\* outside the repeated occurrences is kept
C25_RepeatedPhraseKeptOnce ==
    (Cleaned_once /\ job.input \in SentenceInputs)
        => \A phrase \in RepeatedPhrases(job.input) :
            /\ Len(SplitOn(job.once, phrase)) = 2
            /\ \A w \in 1..Len(split(job.input)) :
                   \E v \in 1..Len(split(job.once)) :
                       split(job.once)[v] = split(job.input)[w]

\* what follows the last terminator of the text, stripped
TrailingFragment(text) ==
    LET ends == {j \in 1..Len(text) : text[j] \in Terminators}
    IN  strip(From(text, Max(ends) + 1))

\* C26: when the text holds a terminated sentence and ends in a fragment
\* without terminator, what clean_answer returns ends with the fragment if
\* and only if the stripped fragment has at least 10 characters
C26_FragmentKeptIffTenLong ==
    (/\ Cleaned_once
     /\ job.input \in SentenceInputs
     /\ \E j \in 1..Len(job.input) : job.input[j] \in Terminators
     /\ ~Terminated(job.input))
        => (endswith(job.once, TrailingFragment(job.input) \o <<46>>)
               <=> Len(TrailingFragment(job.input)) >= 10)

\* C27: what clean_answer returns, when not empty, ends with a terminator,
\* and it ends with a terminator followed by a period only if the text did:
\* no period is appended to a text that ends with a terminator
C27_EndsWithOneTerminator ==
    (Cleaned_once /\ job.once # <<>>)
        => /\ Terminated(job.once)
           /\ job.input \in SentenceInputs
                => \A t \in Terminators :
                       endswith(job.once, <<t, 46>>) => endswith(job.input, <<t, 46>>)

\* passages of the upload named name are stored in the index
StoredUpload(name) ==
    \E pdf \in Pdfs :
        /\ pdf.name = name
        /\ \E i \in 1..Len(collection) : collection[i].source = pdf.tmp

\* C28: the document_name that /api/status reports is absent or the name of
\* an upload whose passages are stored in the index, and it is absent when
\* the status reported is no_documents
C28_StatusNamesAStoredUpload ==
    resp.op = "status"
        => /\ resp.document_name = <<>> \/ StoredUpload(resp.document_name)
           /\ resp.state = "no_documents" => resp.document_name = <<>>

\* C29: when the request of an uploaded PDF completes, with the ingestion
\* done or failed, the temporary file written for it has been deleted
C29_TemporaryFileDeleted ==
    (resp.op = "upload" /\ resp.status \in {200, 500}) => ~resp.temp_file_left

\* the handler of /api/ask returns in the step
AskReturns == job.ask.pc = "counted" /\ job'.ask.pc = "done"

\* the handler of /api/clear returns in the step
ClearReturns == job.clear.pc = "cleared" /\ job'.clear.pc = "done"

====
